---- MODULE Spec2Model ----
(***************************************************************************)
(* hls-playlist-reader: the playlist fetcher (src/src/fetcher.ts), its     *)
(* update loop, and the readers built on it.                               *)
(*                                                                         *)
(* The fetcher is one JavaScript object driven by an event loop.  A step   *)
(* of the model is either a call made by the user of the object (index,    *)
(* update, cancel, ...), or the resumption of a suspended async function   *)
(* (a fetch completing, a timer expiring, a promise reaction running).     *)
(* Timers and I/O are macrotasks: they cannot run while a promise reaction *)
(* of the fetcher is queued (MicrotaskQueued).                             *)
(***************************************************************************)
EXTENDS Integers, Sequences, FiniteSets, TLC

\* ------------------------------------------------------------------ bounds
MaxMsn      == 1    \* media sequence numbers of server responses: 0..MaxMsn
MaxParts    == 1    \* parts in the trailing partial segment: 0..MaxParts
MaxUpdates  == 2    \* update() calls accepted in one behaviour
MaxReads    == 1    \* read requests the consumer keeps pending
MaxNext     == 3    \* next() calls made on a watcher used on its own
MaxHints    == 2    \* EXT-X-PRELOAD-HINT entries of a playlist
MaxBlocking == 2    \* requests that use one blocking id at a time

\* ------------------------------------------------------- playlists (data)
\* A parsed index.  msn is lastMsn(true); parts > 0 means that the last
\* segment is a partial segment (no uri) holding that many parts.
NoIndex == [kind |-> "none", msn |-> 0, parts |-> 0, live |-> FALSE, block |-> FALSE]

MasterIndex == [kind |-> "master", msn |-> 0, parts |-> 0, live |-> FALSE, block |-> FALSE]

\* the media playlists a server sends; block: it advertises CAN-BLOCK-RELOAD
MediaIndexes(block) ==
    { [kind |-> "media", msn |-> m, parts |-> p, live |-> l, block |-> block] :
        m \in 0..MaxMsn, p \in 0..MaxParts, l \in BOOLEAN }

Indexes(block) == MediaIndexes(block) \cup {MasterIndex}

\* MediaPlaylist.lastMsn(includePartial)
lastMsn(idx, includePartial) ==
    IF includePartial \/ idx.parts = 0 THEN idx.msn ELSE idx.msn - 1

\* M3U8Playlist.isLive(): a master playlist is never live
isLive(idx) == idx.kind = "media" /\ idx.live

NoPlaylist == [index |-> NoIndex, strip |-> FALSE]

\* new ParsedPlaylist(index, { noLowLatency }): the stripped copy loses a
\* trailing partial segment and all parts
ParsedPlaylist(idx, noLowLatency) ==
    [index |-> IF noLowLatency
                 THEN [idx EXCEPT !.msn = lastMsn(idx, FALSE), !.parts = 0]
                 ELSE idx,
     strip |-> noLowLatency]

\* Mutation: the head comparison ignores the parts of the last segment.
isSameHeadNoParts(p, idx) ==
    lastMsn(p.index, ~p.strip) = lastMsn(idx, ~p.strip)

\* ParsedPlaylist.isSameHead(index)
isSameHead(p, idx) ==
    LET includePartial == ~p.strip
        sameMsn == lastMsn(p.index, includePartial) = lastMsn(idx, includePartial)
    IN  IF ~sameMsn \/ ~includePartial THEN sameMsn
        ELSE p.index.parts = idx.parts

\* ParsedPlaylist.serverControl.canBlockReload
canBlockReload(p) == p.index.block

\* ------------------------------------------------ validateIndexMeta (data)
\* a text as its characters, for the url of a response
\* String.prototype.indexOf(search, position), positions counted from 0
indexOf(str, search, position) ==
    LET from == IF position < 0 THEN 0
                ELSE IF position > Len(str) THEN Len(str) ELSE position
        hits == { k \in from .. (Len(str) - Len(search)) :
                     SubSeq(str, k + 1, k + Len(search)) = search }
    IN  IF hits = {} THEN -1 ELSE CHOOSE k \in hits : \A j \in hits : k <= j

\* String.prototype.toLowerCase() on the MIME types that are tried
toLowerCase(mime) ==
    CASE mime = "Application/VND.Apple.MpegURL" -> "application/vnd.apple.mpegurl"
      [] mime = "AUDIO/MPEGURL" -> "audio/mpegurl"
      [] mime = "Video/MP4" -> "video/mp4"
      [] OTHER -> mime

\* HlsPlaylistFetcher.indexMimeTypes
indexMimeTypes ==
    { "application/vnd.apple.mpegurl", "application/x-mpegurl", "audio/mpegurl" }

Meta(mime, url) == [mime |-> mime, url |-> url]

\* Mutation: validateIndexMeta compares the MIME type as it was sent.
validateIndexMetaExact(meta) ==
    meta.mime \notin indexMimeTypes
        /\ indexOf(meta.url, << ".", "m", "3", "u", "8" >>, Len(meta.url) - 5) = -1
        /\ indexOf(meta.url, << ".", "m", "3", "u" >>, Len(meta.url) - 4) = -1

\* validateIndexMeta(meta) throws
validateIndexMeta(meta) ==
    toLowerCase(meta.mime) \notin indexMimeTypes
        /\ indexOf(meta.url, << ".", "m", "3", "u", "8" >>, Len(meta.url) - 5) = -1
        /\ indexOf(meta.url, << ".", "m", "3", "u" >>, Len(meta.url) - 4) = -1

\* the responses that are tried: each accepted type, in other case, a type
\* that is not accepted, with urls that end or do not end in an extension
Metas ==
    { Meta("application/vnd.apple.mpegurl", << "a" >>),
      Meta("application/x-mpegurl", << >>),
      Meta("AUDIO/MPEGURL", << "a", ".", "t", "s" >>),
      Meta("Application/VND.Apple.MpegURL", << "a", ".", "m", "p", "4" >>),
      Meta("video/mp4", << "a", ".", "m", "3", "u", "8" >>),
      Meta("Video/MP4", << ".", "m", "3", "u" >>),
      Meta("video/mp4", << "a", ".", "m", "3", "u", "8", "?", "b" >>),
      Meta("text/plain", << "a", ".", "M", "3", "U", "8" >>),
      Meta("", << "m", "3", "u", "8" >>) }

\* ---------------------------------------------------------- errors (data)
\* status is the httpStatus property (0: none)
Err(name, status) == [name |-> name, status |-> status, isBlocking |-> FALSE]

NoErr         == Err("none", 0)
AbortErr      == Err("Index update was aborted", 0)
StalledErr    == Err("Index update stalled", 0)
DataErr       == Err("data: uri cannot be updated", 0)
MimeErr       == Err("Invalid MIME type", 0)
ParserErr     == Err("ParserError", 0)
CastErr       == Err("Cannot cast a main playlist", 0)
RejectedErr   == Err("Rejected update from the past", 500)
Inconsistency == Err("Fatal stream inconsistency error", 0)
ProblemErr    == Err("thrown by onProblem", 0)
WatchErr      == Err("watch error", 0)

\* what a request can fail with: a soft and a hard HTTP failure
FetchErrors == { Err("Fetch failed", 500), Err("Fetch failed", 400) }

\* reasons a caller passes to cancel(): none, or an error of its own, which
\* here carries an httpStatus
CancelReasons == { NoErr, Err("user reason", 503) }

recoverableCodes == {404, 408, 425, 429}

\* Mutation: no status is recoverable.
isRecoverableNever(err) == err.isBlocking \/ err.name = "ParserError"

\* HlsPlaylistFetcher.isRecoverableUpdateError(err)
isRecoverableUpdateError(err) ==
    IF err.isBlocking THEN TRUE
    ELSE IF err.status # 0
         THEN (err.status >= 500 /\ err.status <= 599) \/ err.status \in recoverableCodes
         ELSE err.name = "ParserError"

\* an error object as the classifiers read it.  isBlocking: "true" (=== true),
\* "truthy" (another truthy value), "unset"; httpStatus and statusCode: the
\* number held by the property, 0 when it is not a number or is 0; for a Boom
\* error statusCode is output.statusCode; syscall: the property is truthy;
\* parser: instanceof ParserError
ErrorObject(isBlocking, httpStatus, statusCode, isBoom, syscall, parser) ==
    [ isBlocking |-> isBlocking, httpStatus |-> httpStatus,
      statusCode |-> statusCode, isBoom |-> isBoom, syscall |-> syscall,
      parser |-> parser ]

\* Mutation: 599 is not a server status.
isRecoverableBaseOpen(err, httpStatus) ==
    LET status == IF httpStatus = 0 THEN err.httpStatus ELSE httpStatus
    IN  IF err.isBlocking = "true" THEN TRUE
        ELSE IF status # 0
             THEN (status >= 500 /\ status < 599) \/ status \in recoverableCodes
             ELSE err.parser

\* HlsPlaylistFetcher.isRecoverableUpdateError(err, httpStatus) of the base
\* class; httpStatus is 0 when the argument is not passed
isRecoverableBase(err, httpStatus) ==
    LET status == IF httpStatus = 0 THEN err.httpStatus ELSE httpStatus
    IN  IF err.isBlocking = "true" THEN TRUE
        ELSE IF status # 0
             THEN (status >= 500 /\ status <= 599) \/ status \in recoverableCodes
             ELSE err.parser

\* isRecoverableUpdateError(err) of the node class
isRecoverableNode(err) ==
    IF err.syscall THEN TRUE
    ELSE isRecoverableBase(err, IF err.isBoom THEN err.statusCode ELSE 0)

\* isRecoverableUpdateError(err) of the web class
isRecoverableWeb(err) == isRecoverableBase(err, err.statusCode)

\* isRecoverableUpdateError(err) as the class of that variant answers
classify(variant, err) ==
    IF variant = "node" THEN isRecoverableNode(err)
    ELSE IF variant = "web" THEN isRecoverableWeb(err)
    ELSE isRecoverableBase(err, 0)

Probe(variant, err, verdict) == [variant |-> variant, err |-> err, verdict |-> verdict]
NoProbe == Probe("none", ErrorObject("unset", 0, 0, FALSE, FALSE, FALSE), FALSE)

\* a snapshot (PlaylistObject); id is the ordinal of the call that produced
\* it: 0 for index(), k for the k-th update()
Snap(id, idx) == [id |-> id, index |-> idx]
NoSnap == Snap(-1, NoIndex)

\* a promise: st is "none" (no promise), "pending", "resolved", "rejected"
Promise(st, snap, err) == [st |-> st, snap |-> snap, err |-> err]
NoPromise == Promise("none", NoSnap, NoErr)


\* ------------------------------------------------------------------ state
VARIABLES
    cfg,          \* constructor arguments: url protocol, lowLatency, head
    aborted,      \* #ac.signal.aborted
    reason,       \* #ac.signal.reason
    index,        \* #index
    playlist,     \* #playlist
    updatedOf,    \* `updated`, `modified`, `baseUrl` describe: "none", the
                  \* stored "index", or a response that was "rejected"
    rejected,     \* #rejected
    updates,      \* updates
    fetch,        \* #fetch: "none", or the phase of the request it holds
    req,          \* options of the request held by #fetch
    watcher,      \* #watcher: "none", or the state of the watcher it refers to
    leaked,       \* history: the fetcher has dropped its reference to a
                  \* watcher whose watch was open
    stallTimer,   \* #stallTimer is armed
    latest,       \* #latest
    pending,      \* #pending is set
    pc,           \* where the _next() coroutine of the pending update() stands
    start,        \* _next: const playlist
    wasUpdated,   \* _next: wasUpdated
    wasError,     \* _next: wasError
    res,          \* _next: res, between _updateIndex() and its test
    thrown,       \* _next: the error _delayedUpdate() has rejected with
    problems,     \* number of onProblem invocations of the last step
    lastProblem,  \* argument of the onProblem invocation of the last step
    performs,     \* ContentFetcher.perform() requests outstanding
    ret,          \* the call of the last step that threw, and what it threw
    cancelCalled, \* history: cancel() has been called
    accepted,     \* history: number of update() calls that did not throw
    reader,       \* the HlsPlaylistReadable that owns the fetcher, if any
    delivered,    \* history: ids of the snapshots the consumer's reads returned
    resolved,     \* history: ids of the snapshots index() and update() resolved with
    probe,        \* an error value handed to isRecoverableUpdateError, and the answer
    fsw,          \* an FsWatcher used on its own, its event loop and its callers
    internals     \* helpers.node.ts: internals.agents and internals.unblockerTimer

Ret(op, e) == [op |-> op, thrown |-> e]
NoRet == Ret("none", NoErr)

fvars == << cfg, aborted, reason, index, playlist, updatedOf, rejected, updates,
            fetch, req, watcher, leaked, stallTimer, latest, pending, pc, start,
            wasUpdated, wasError, res, thrown, problems, lastProblem, performs,
            ret, cancelCalled, accepted >>

vars == << fvars, reader, delivered, resolved, probe, fsw, internals >>

\* the fetcher and its environment as one value, so that the sequential code
\* of a handler composes as function application.  ret, problems and
\* lastProblem describe the last step only: every step starts with them
\* cleared.
F == [ aborted |-> aborted, reason |-> reason, index |-> index,
       playlist |-> playlist, updatedOf |-> updatedOf, rejected |-> rejected,
       updates |-> updates, fetch |-> fetch, req |-> req, watcher |-> watcher,
       leaked |-> leaked, stallTimer |-> stallTimer, latest |-> latest,
       pending |-> pending, pc |-> pc, start |-> start,
       wasUpdated |-> wasUpdated, wasError |-> wasError, res |-> res,
       thrown |-> thrown,
       problems |-> 0, lastProblem |-> NoErr,
       performs |-> performs, ret |-> NoRet ]

SetF(s) ==
    /\ aborted' = s.aborted /\ reason' = s.reason /\ index' = s.index
    /\ playlist' = s.playlist /\ updatedOf' = s.updatedOf
    /\ rejected' = s.rejected /\ updates' = s.updates /\ fetch' = s.fetch
    /\ req' = s.req /\ watcher' = s.watcher /\ leaked' = s.leaked
    /\ stallTimer' = s.stallTimer /\ latest' = s.latest
    /\ pending' = s.pending /\ pc' = s.pc /\ start' = s.start
    /\ wasUpdated' = s.wasUpdated /\ wasError' = s.wasError /\ res' = s.res
    /\ thrown' = s.thrown
    /\ problems' = s.problems /\ lastProblem' = s.lastProblem
    /\ performs' = s.performs /\ ret' = s.ret
    /\ cfg' = cfg

\* the state has the fetcher s
IsF(s) ==
    /\ aborted = s.aborted /\ reason = s.reason /\ index = s.index
    /\ playlist = s.playlist /\ updatedOf = s.updatedOf
    /\ rejected = s.rejected /\ updates = s.updates /\ fetch = s.fetch
    /\ req = s.req /\ watcher = s.watcher /\ leaked = s.leaked
    /\ stallTimer = s.stallTimer /\ latest = s.latest
    /\ pending = s.pending /\ pc = s.pc /\ start = s.start
    /\ wasUpdated = s.wasUpdated /\ wasError = s.wasError /\ res = s.res
    /\ thrown = s.thrown
    /\ problems = s.problems /\ lastProblem = s.lastProblem
    /\ performs = s.performs /\ ret = s.ret

\* the stream, its default controller and its source as one value.
\* state: "none" (the fetcher is used without a reader), "readable",
\* "closed", "cancelled" (closed by cancel(), source.fetch unlinked),
\* "errored".  reads: pending read requests.  rpc: the method of the source
\* that is suspended in its await; perr: the error its promise rejects with.
\* The Node reader (HlsPlaylistReader) is a Readable: queue is its buffer,
\* closeRequested its `ended`, pulling its `reading`, "closed" is ended and
\* destroyed by autoDestroy, "errored" destroyed with an error, "cancelled"
\* destroyed without one; its `fetch` is unlinked in every state but
\* "readable".  prefetch: the catch() of the constructor has not run;
\* hasIndex: `this.index` is set; rpc: the promise ("index", "update") that
\* _read() has attached its callbacks to; unhandled: the error thrown by a
\* callback whose promise nobody handles.  asked is a history: the number of
\* read requests the consumer has made.
NoReader ==
    [ state |-> "none", closeRequested |-> FALSE, queue |-> << >>, reads |-> 0,
      started |-> FALSE, pulling |-> FALSE, pullAgain |-> FALSE,
      rpc |-> "none", perr |-> NoErr, storedError |-> NoErr,
      stallAfterMs |-> FALSE,
      prefetch |-> FALSE, hasIndex |-> FALSE, unhandled |-> NoErr,
      asked |-> 0 ]

\* the fetcher, the reader and what the consumer has received
W == [f |-> F, r |-> reader, out |-> delivered]

\* p: what the step observed of a response (NoProbe: nothing)
BecomesWP(w, p) ==
    /\ SetF(w.f) /\ reader' = w.r /\ delivered' = w.out /\ probe' = p
    /\ fsw' = fsw /\ internals' = internals
    /\ resolved' = IF reader.state # "none" /\ w.f.latest # latest
                        /\ w.f.latest.st = "resolved"
                    THEN Append(resolved, w.f.latest.snap.id)
                    ELSE resolved

BecomesW(w) == BecomesWP(w, NoProbe)

Sets(s) == BecomesW([W EXCEPT !.f = s])

\* what _addMsnPart(url, head) has put into the url of a request: nothing,
\* `this.from` of the constructor options, or nextHead() of a playlist
MsnPart(by, of) == [by |-> by, of |-> of]
NoMsnPart == MsnPart("none", NoPlaylist)

\* a request: blocking tells that it has a blocking key, which is the url
Req(blocking, fresh, msnPart) ==
    [blocking |-> blocking, fresh |-> fresh, msnPart |-> msnPart]
NoReq == Req(FALSE, FALSE, NoMsnPart)

\* the fetchers that are checked: every protocol, with and without LL-HLS,
\* a blocking server, an initial head
Config(proto, lowLatency, head, block) ==
    [proto |-> proto, lowLatency |-> lowLatency, head |-> head, block |-> block]

Configs ==
    { Config("http:", TRUE, TRUE, TRUE), Config("http:", FALSE, FALSE, FALSE),
      Config("file:", TRUE, FALSE, FALSE), Config("data:", FALSE, FALSE, TRUE) }


AlreadyUpdating == Err("An update is already being fetched", 0)
NoInitialIndex  == Err("An initial index() must have been sucessfully fetched", 0)
CannotUpdate    == Err("Playlist cannot be updated", 0)
AlreadyFetching == Err("Already fetching", 0)

\* the `name` property of an error the repository creates: AbortError is a
\* DOMException of that name, assert() names its error, `new Error(...)`
\* leaves the default
errorName(e) ==
    IF e = AbortErr THEN "AbortError"
    ELSE IF e \in {AlreadyUpdating, NoInitialIndex, CannotUpdate, AlreadyFetching}
    THEN "AssertError"
    ELSE "Error"

\* ------------------------------------------------- the fetcher's methods
\* Mutation: canUpdate() does not look at the abort signal.
canUpdateIgnoresAbort(s) == isLive(s.index)

\* canUpdate()
canUpdate(s) == ~s.aborted /\ isLive(s.index)

\* cleanup(): close the watcher and drop the reference
cleanup(s) == [s EXCEPT !.watcher = "none"]

\* _updateStallTimer(timeout): finite is `timeout !== undefined && timeout !== Infinity`
_updateStallTimer(s, finite) == [s EXCEPT !.stallTimer = finite]

\* cancel(reason)
cancel(s, r) ==
    IF s.aborted THEN s
    ELSE cleanup([s EXCEPT !.aborted = TRUE,
                           !.reason = IF r = NoErr THEN AbortErr ELSE r])

\* _fetchIndexFrom(url, options) up to the call of perform(): the error it
\* throws synchronously, NoErr when the request is issued.  Both content
\* fetchers start perform() with signal.throwIfAborted().
fetchThrows(s) ==
    IF s.fetch # "none" THEN AlreadyFetching
    ELSE IF s.aborted THEN s.reason
    ELSE NoErr

\* _fetchIndexFrom(url, options) when perform() has returned a promise
_fetchIndexFrom(s, r) ==
    [s EXCEPT !.fetch = "perform", !.req = r, !.performs = s.performs + 1]

\* the finally() of _fetchIndexFrom
fetchFinally(s) ==
    [s EXCEPT !.fetch = "none", !.req = NoReq, !.performs = s.performs - 1]

\* Mutation: only the first backward response in a row is rejected.
rejectsOnce(s, raw) ==
    s.index.kind # "none" /\ raw.kind = "media"
        /\ lastMsn(raw, TRUE) < lastMsn(s.index, TRUE) /\ s.rejected < 1

\* Mutation: the third backward response in a row is rejected as well.
rejectsUpTo3(s, raw) ==
    s.index.kind # "none" /\ raw.kind = "media"
        /\ lastMsn(raw, TRUE) < lastMsn(s.index, TRUE) /\ s.rejected < 3

\* preprocessIndex(index) throws 'Rejected update from the past'
rejects(s, raw) ==
    s.index.kind # "none" /\ raw.kind = "media"
        /\ lastMsn(raw, TRUE) < lastMsn(s.index, TRUE) /\ s.rejected < 2
\* Mutation: preprocessIndex does not cast the response to a media playlist.
preprocessThrowsNoCast(s, raw) ==
    IF s.index.kind = "none" THEN NoErr
    ELSE IF rejects(s, raw) THEN RejectedErr
    ELSE NoErr

\* preprocessIndex(index): the error it throws, NoErr when it returns index
preprocessThrows(s, raw) ==
    IF s.index.kind = "none" THEN NoErr
    ELSE IF raw.kind # "media" THEN CastErr     \* MediaPlaylist.cast(index)
    ELSE IF rejects(s, raw) THEN RejectedErr
    ELSE NoErr

\* _updateIndex(fetchPromise) once the content is there.  content is the
\* parsed text, or NoIndex for a text the parser rejects.  `updated`,
\* `baseUrl` and `modified` are assigned before preprocessIndex() runs.
_updateIndex(s, content) ==
    IF content = NoIndex THEN s
    ELSE LET s1 == [s EXCEPT !.updatedOf = "rejected"]
         IN  IF preprocessThrows(s1, content) = RejectedErr
             THEN [s1 EXCEPT !.rejected = s.rejected + 1]
             ELSE IF preprocessThrows(s1, content) # NoErr THEN s1
             ELSE [s1 EXCEPT !.rejected = 0,
                             !.updatedOf = "index",
                             !.index = content,
                             !.playlist = IF content.kind = "media"
                                            THEN ParsedPlaylist(content, ~cfg.lowLatency)
                                            ELSE NoPlaylist]

\* the error _updateIndex(fetchPromise) throws for that content
updateIndexThrows(s, content) ==
    IF content = NoIndex THEN ParserErr ELSE preprocessThrows(s, content)

\* Mutation: the finally() of update() leaves #pending set.
updateFinallyKeepsPending(s, p) ==
    [s EXCEPT !.updates = s.updates + 1, !.latest = p, !.stallTimer = FALSE,
              !.pc = "idle", !.start = NoPlaylist,
              !.wasUpdated = FALSE, !.wasError = FALSE, !.res = NoSnap,
              !.thrown = NoErr]
\* Mutation: the finally() of update() leaves the stall timer armed.
updateFinallyKeepsTimer(s, p) ==
    [s EXCEPT !.updates = s.updates + 1, !.latest = p, !.pending = FALSE,
              !.pc = "idle", !.start = NoPlaylist,
              !.wasUpdated = FALSE, !.wasError = FALSE, !.res = NoSnap,
              !.thrown = NoErr]
\* Mutation: the finally() of update() does not replace #latest.
updateFinallyKeepsLatest(s, p) ==
    LET s1 == [s EXCEPT !.updates = s.updates + 1,
                        !.pending = FALSE,
                        !.stallTimer = FALSE,
                        !.pc = "idle", !.start = NoPlaylist,
                        !.wasUpdated = FALSE, !.wasError = FALSE, !.res = NoSnap,
                        !.thrown = NoErr]
    IN  IF ~canUpdate(s1) THEN cleanup(s1) ELSE s1

\* the finally() of update(): the promise returned by update() settles as p
updateFinally(s, p) ==
    LET s1 == [s EXCEPT !.updates = s.updates + 1,
                        !.latest = p,
                        !.pending = FALSE,
                        !.stallTimer = FALSE,
                        !.pc = "idle", !.start = NoPlaylist,
                        !.wasUpdated = FALSE, !.wasError = FALSE, !.res = NoSnap,
                        !.thrown = NoErr]
    IN  IF ~canUpdate(s1) THEN cleanup(s1) ELSE s1

\* onProblem(err) is invoked
onProblem(s, e) == [s EXCEPT !.problems = s.problems + 1, !.lastProblem = e]

\* Mutation: a recoverable error is reported and thrown on.
nextCatchRethrows(s, e, throws) ==
    IF ~isRecoverableUpdateError(e)
    THEN updateFinally(s, Promise("rejected", NoSnap, e))
    ELSE updateFinally(onProblem(s, e), Promise("rejected", NoSnap, e))

\* Mutation: an error thrown by onProblem is swallowed.
nextCatchSwallows(s, e, throws) ==
    IF ~isRecoverableUpdateError(e)
    THEN updateFinally(s, Promise("rejected", NoSnap, e))
    ELSE [onProblem(s, e) EXCEPT !.wasError = TRUE, !.wasUpdated = FALSE,
                                 !.pc = "retry", !.thrown = NoErr]
\* Mutation: every caught error is reported before it is thrown on.
nextCatchReportsAll(s, e, throws) ==
    IF ~isRecoverableUpdateError(e)
    THEN updateFinally(onProblem(s, e), Promise("rejected", NoSnap, e))
    ELSE IF throws
    THEN updateFinally(onProblem(s, e), Promise("rejected", NoSnap, ProblemErr))
    ELSE [onProblem(s, e) EXCEPT !.wasError = TRUE, !.wasUpdated = FALSE,
                                 !.pc = "retry", !.thrown = NoErr]

\* _next: catch (err) of one iteration; throws tells whether the onProblem
\* callback throws
nextCatch(s, e, throws) ==
    IF ~isRecoverableUpdateError(e)
    THEN updateFinally(s, Promise("rejected", NoSnap, e))
    ELSE IF throws
    THEN updateFinally(onProblem(s, e), Promise("rejected", NoSnap, ProblemErr))
    ELSE [onProblem(s, e) EXCEPT !.wasError = TRUE, !.wasUpdated = FALSE,
                                 !.pc = "retry", !.thrown = NoErr]

\* _delayedUpdate() rejects with e: _next resumes in its catch block with the
\* next promise reaction
throw(s, e) == [s EXCEPT !.pc = "thrown", !.thrown = e]
\* Mutation: only an error with a recoverable status is tagged.
tagBlockingRecoverable(e, blocking) ==
    IF (e.status >= 500 /\ e.status <= 599) \/ e.status \in recoverableCodes
    THEN [e EXCEPT !.isBlocking = blocking] ELSE e

\* _delayedUpdate: catch (err) around the fetch
tagBlocking(e, blocking) ==
    IF e.status # 0 THEN [e EXCEPT !.isBlocking = blocking] ELSE e

\* _delayedUpdate from `try { return await this._updateIndex(this._fetchIndexFrom(...)) }`
delayedFetch(s, blocking) ==
    IF fetchThrows(s) # NoErr
    THEN throw(s, tagBlocking(fetchThrows(s), blocking))
    ELSE [_fetchIndexFrom(s, Req(blocking, ~blocking,
                                 IF blocking THEN MsnPart("nextHead", s.start)
                                 ELSE NoMsnPart))
            EXCEPT !.pc = "fetch"]

\* _delayedUpdate: catch (err) around `await this.#watcher.next(delayMs)`,
\* then the fetch.  The reference is dropped; the watcher has been closed
\* by cleanup(), or it has failed, and the watch of a failed watcher has
\* been closed by the runtime.
watchRejected(s, throws) ==
    LET s1 == [s EXCEPT !.watcher = "none"]
    IN  IF s.aborted THEN throw(s1, s.reason)
        ELSE IF throws THEN throw(onProblem(s1, WatchErr), ProblemErr)
        ELSE delayedFetch(onProblem(s1, WatchErr), FALSE)

\* Mutation: _delayedUpdate does not refuse a data: url.
delayedUpdateAnyUrl(s, positive, throws) ==
    LET blocking == s.wasUpdated /\ canBlockReload(s.start)
        delay    == ~blocking /\ positive
    IN  IF ~delay THEN delayedFetch(s, blocking)
        ELSE IF s.watcher = "open" THEN [s EXCEPT !.pc = "watch"]
        ELSE IF s.watcher = "error" THEN watchRejected(s, throws)
        ELSE IF s.aborted THEN throw(s, s.reason)
        ELSE [s EXCEPT !.pc = "wait"]

\* Mutation: _delayedUpdate blocks whenever the playlist allows it.
delayedUpdateAlwaysBlocks(s, positive, throws) ==
    LET blocking == canBlockReload(s.start)
        delay    == ~blocking /\ positive
    IN  IF cfg.proto = "data:" THEN throw(s, DataErr)
        ELSE IF ~delay THEN delayedFetch(s, blocking)
        ELSE IF s.watcher = "open" THEN [s EXCEPT !.pc = "watch"]
        ELSE IF s.watcher = "error" THEN watchRejected(s, throws)
        ELSE IF s.aborted THEN throw(s, s.reason)
        ELSE [s EXCEPT !.pc = "wait"]

\* _delayedUpdate(fromPlaylist, wasUpdated, wasError) up to its first
\* suspension.  positive: the computed delayMs is > 0.
_delayedUpdate(s, positive, throws) ==
    LET blocking == s.wasUpdated /\ canBlockReload(s.start)
        delay    == ~blocking /\ positive
    IN  IF cfg.proto = "data:" THEN throw(s, DataErr)
        ELSE IF ~delay THEN delayedFetch(s, blocking)
        ELSE IF s.watcher = "open" THEN [s EXCEPT !.pc = "watch"]
        ELSE IF s.watcher = "error" THEN watchRejected(s, throws)
        ELSE IF s.aborted THEN throw(s, s.reason)
        ELSE [s EXCEPT !.pc = "wait"]

\* the promise reactions that follow a step of _delayedUpdate
resume(s, throws) ==
    IF s.pc = "thrown" THEN nextCatch(s, s.thrown, throws) ELSE s

\* a promise reaction of the fetcher is queued: no timer or I/O callback
\* runs before it
fetcherQueued ==
    \/ pc \in {"stored", "thrown"}
    \/ pc = "wait" /\ aborted
    \/ pc = "watch" /\ watcher # "open"

\* the promise that start() or pull() of the source awaits has settled
startQueued == reader.rpc = "start" /\ latest.st \in {"resolved", "rejected"}
pullQueued  == reader.rpc = "pull" /\ (reader.perr # NoErr \/ ~pending)


\* a promise the Node reader has attached callbacks to has settled
nodeQueued ==
    \/ reader.prefetch /\ latest.st \in {"resolved", "rejected"}
    \/ reader.rpc = "index" /\ latest.st \in {"resolved", "rejected"}
    \/ reader.rpc = "update" /\ ~pending

MicrotaskQueued == fetcherQueued \/ startQueued \/ pullQueued \/ nodeQueued

Becomes(s) == Sets(s) /\ UNCHANGED << cancelCalled, accepted >>

\* the fetcher after construction
FInit ==
    [ aborted |-> FALSE, reason |-> NoErr, index |-> NoIndex,
      playlist |-> NoPlaylist, updatedOf |-> "none", rejected |-> 0,
      updates |-> 0, fetch |-> "none", req |-> NoReq, watcher |-> "none",
      leaked |-> FALSE, stallTimer |-> FALSE, latest |-> NoPromise,
      pending |-> FALSE, pc |-> "idle", start |-> NoPlaylist,
      wasUpdated |-> FALSE, wasError |-> FALSE, res |-> NoSnap,
      thrown |-> NoErr, problems |-> 0, lastProblem |-> NoErr,
      performs |-> 0, ret |-> NoRet ]

\* --------------------------------------------------- FsWatcher on its own
\* The watcher together with the part of the event loop it lives in.
\*   last, error, deferred, delayed, timer: the private fields _last, _error,
\*     _deferred, _delayed, _timer; deferred and timer hold the number of
\*     the promise they were created for, 0 when there is none
\*   timers: the timeouts that are armed
\*   immediates: the event types the queued setImmediate callbacks closed over
\*   open: the fs.watch handle delivers events
\*   closing: the 'close' event of the handle is queued on the next tick
\*   settled: per promise next() has returned, the values resolve() and
\*     reject() were called with on its Deferred
\*   calls: number of next() calls made
\*   ret: what the last call returned or threw
\*   uncaught: a callback has thrown
\*   seen: history, per promise the first event for the watched file that
\*     occurred while it was pending
\*   unreported: history, the last event for the watched file that occurred
\*     while no promise was pending and that no next() has returned yet
\*   timed: history, per promise whether its next() was given a timeout
\*   overlapped: history, next() has returned a promise while another one
\*     was pending
EventTypes == { "change", "rename" }

\* const fileName = basename(path), and another file of the directory
fileName == "file1"
FileNames == { "file1", "file2" }

NoCall == [op |-> "none", value |-> "none"]

\* new FsWatcher(uri)
NewFsWatcher ==
    [ last |-> "none", error |-> "none", deferred |-> 0, delayed |-> "none",
      timer |-> 0, timers |-> {}, immediates |-> << >>, open |-> TRUE,
      closing |-> FALSE, settled |-> << >>, calls |-> 0, ret |-> NoCall,
      uncaught |-> FALSE, seen |-> << >>, unreported |-> "none",
      timed |-> << >>, overlapped |-> FALSE ]

\* this._deferred.resolve(value), this._deferred.reject(err)
settle(w, value) == [w EXCEPT !.settled[w.deferred] = Append(@, value)]

\* clearTimeout(this._timer!)
clearTimeout(w) == [w EXCEPT !.timers = @ \ {w.timer}]
\* Mutation: the change handler keeps the first event that no next() has
\* returned.
changeKeepsFirst(w, eventType, name) ==
    IF name # fileName THEN w
    ELSE IF w.deferred # 0
    THEN IF w.delayed = "none"
         THEN [clearTimeout(w) EXCEPT !.delayed = eventType,
                                      !.immediates = Append(@, eventType)]
         ELSE w
    ELSE [w EXCEPT !.last = IF @ = "none" THEN eventType ELSE @]

\* const change = (eventType, name) => { ... }
change(w, eventType, name) ==
    IF name # fileName THEN w
    ELSE IF w.deferred # 0
    THEN IF w.delayed = "none"
         THEN [clearTimeout(w) EXCEPT !.delayed = eventType,
                                      !.immediates = Append(@, eventType)]
         ELSE w
    ELSE [w EXCEPT !.last = eventType]

\* the callback handed to setImmediate() by the change handler
immediate(w) ==
    LET eventType == Head(w.immediates)
        w1 == [w EXCEPT !.immediates = Tail(@)]
    IN  IF w1.deferred = 0 THEN w1
        ELSE [settle(w1, eventType) EXCEPT !.deferred = 0, !.delayed = "none"]

\* const error = (err) => { ... }
onError(w, err) ==
    LET w1 == IF w.deferred # 0
              THEN clearTimeout([settle(w, err) EXCEPT !.deferred = 0])
              ELSE w
    IN  [w1 EXCEPT !.error = err]

\* watcher.once('close', () => { ...; this._last = undefined })
closeListener(w) == [w EXCEPT !.last = "none", !.closing = FALSE]

\* the callback handed to setTimeout() by next(): `this._deferred!` is
\* undefined when no promise is pending, and the callback throws
timeout(w, t) ==
    LET w1 == [w EXCEPT !.timers = @ \ {t}]
    IN  IF w1.deferred = 0 THEN [w1 EXCEPT !.uncaught = TRUE]
        ELSE [settle(w1, "timeout") EXCEPT !.deferred = 0]

\* next(timeoutMs): timed tells whether timeoutMs is given
next(w, timed) ==
    LET w0 == [w EXCEPT !.calls = @ + 1]
        id == Len(w.settled) + 1
    IN  IF w0.error # "none"
        THEN [w0 EXCEPT !.ret = [op |-> "next", value |-> "throws", err |-> w0.error]]
        ELSE IF w0.last # "none"
        THEN [w0 EXCEPT !.last = "none",
                        !.ret = [op |-> "next", value |-> w0.last]]
        ELSE [w0 EXCEPT !.deferred = id,
                        !.settled = Append(@, << >>),
                        !.seen = Append(@, "none"),
                        !.timed = Append(@, timed),
                        !.timer = IF timed THEN id ELSE @,
                        !.timers = IF timed THEN @ \cup {id} ELSE @,
                        !.ret = [op |-> "next", value |-> "promise", id |-> id]]

\* Mutation: close() sets its error whatever the watcher holds.
closeWatcherAlways(w) ==
    LET w1 == [w EXCEPT !.error = "closed", !.open = FALSE, !.closing = w.open]
    IN  [(IF w1.deferred # 0
          THEN clearTimeout([settle(w1, "closed") EXCEPT !.deferred = 0])
          ELSE w1) EXCEPT !.ret = [op |-> "close", value |-> "none"]]

\* close(): this._watcher.close() stops the handle and queues its 'close'
\* event
closeWatcher(w) ==
    LET w0 == [w EXCEPT !.ret = [op |-> "close", value |-> "none"]]
    IN  IF w0.error # "none" THEN w0
        ELSE LET w1 == [w0 EXCEPT !.error = "closed", !.open = FALSE,
                                  !.closing = TRUE]
             IN  IF w1.deferred # 0
                 THEN clearTimeout([settle(w1, "closed") EXCEPT !.deferred = 0])
                 ELSE w1

\* the promises that next() has returned and that have not settled
PendingOf(w) == { id \in 1..Len(w.settled) : w.settled[id] = << >> }

\* every step starts with the result of the last call cleared
Fsw == [fsw EXCEPT !.ret = NoCall]

WatcherBecomes(w) ==
    /\ fsw' = w
    /\ UNCHANGED << fvars, reader, delivered, resolved, probe, internals >>

\* the user calls next(), with and without a timeout
FsNext ==
    /\ fsw.calls < MaxNext
    /\ \E timed \in BOOLEAN :
          LET w == next(Fsw, timed)
          IN  WatcherBecomes(
                IF w.ret.value \in EventTypes THEN [w EXCEPT !.unreported = "none"]
                ELSE IF w.ret.value = "promise" /\ PendingOf(fsw) # {}
                THEN [w EXCEPT !.overlapped = TRUE]
                ELSE w)

\* the user calls close()
FsClose ==
    /\ fsw' = closeWatcher(Fsw)
    /\ UNCHANGED << fvars, reader, delivered, resolved, probe, internals >>

\* the directory changes: the handle emits 'change' for one of its files
FsChange ==
    /\ fsw.open
    /\ \E eventType \in EventTypes, name \in FileNames :
          LET w == change(Fsw, eventType, name)
          IN  WatcherBecomes(
                IF name # fileName THEN w
                ELSE IF PendingOf(fsw) = {}
                THEN [w EXCEPT !.unreported = eventType]
                ELSE [w EXCEPT !.seen =
                        [id \in DOMAIN @ |->
                            IF id \in PendingOf(fsw) /\ @[id] = "none"
                            THEN eventType ELSE @[id]]])

\* the watch fails: node closes the handle and emits 'error'
FsError ==
    /\ fsw.open
    /\ WatcherBecomes([onError(Fsw, "fail") EXCEPT !.open = FALSE])

\* the next tick after close(): the handle emits 'close'
FsClosed ==
    /\ fsw.closing
    /\ WatcherBecomes(closeListener(Fsw))

\* the check phase of the event loop turn runs the setImmediate callbacks
FsImmediate ==
    /\ fsw.immediates # << >> /\ ~fsw.closing
    /\ WatcherBecomes(immediate(Fsw))

\* a timeout expires; the timers phase comes after the check phase
FsTimeout ==
    /\ fsw.immediates = << >> /\ ~fsw.closing
    /\ \E t \in fsw.timers : WatcherBecomes(timeout(Fsw, t))

NextWatcher ==
    \/ FsNext \/ FsClose
    \/ FsChange \/ FsError \/ FsClosed
    \/ FsImmediate \/ FsTimeout

\* ------------------------------------------- the blocking agents (node)
\* internals.agents maps a blocking id to a pair of lazily created
\* keep-alive agents and the number of requests that use them.
\*   agents[id]: present tells that the map has the id; count is
\*     [activeCount]; http and https are -1 while the getter has not been
\*     read, else the number of sockets of the agent, open or free
\*     (maxSockets: 1)
\*   unblockerTimer: "unset" (undefined), "armed", or "fired": the field
\*     still holds the timer whose callback has run
BlockingIds == { "url1", "url2" }

AgentNames == { "http", "https" }

NoAgents == [present |-> FALSE, count |-> 0, http |-> -1, https |-> -1]

NewInternals ==
    [ agents |-> [id \in BlockingIds |-> NoAgents], unblockerTimer |-> "unset" ]

\* internals.blockingConfig(id)
blockingConfig(i, id) ==
    IF ~i.agents[id].present
    THEN [i EXCEPT !.agents[id] = [NoAgents EXCEPT !.present = TRUE, !.count = 1]]
    ELSE [i EXCEPT !.agents[id].count = @ + 1]

\* the request reads the agent of its protocol and opens its socket, or
\* takes the free one; name "none": it fails before it does
useAgent(i, id, name) ==
    IF name = "none" THEN i ELSE [i EXCEPT !.agents[id][name] = 1]

\* internals.unblock(id)
unblock(i, id) ==
    LET count == i.agents[id].count - 1
        i1    == [i EXCEPT !.agents[id].count = count]
    IN  IF count = 0 /\ i.unblockerTimer = "unset"
        THEN [i1 EXCEPT !.unblockerTimer = "armed"]
        ELSE i1

\* the agents with sockets that unblocker() counts: `continue` resumes the
\* loop over the two agent names
standbyOf(i) ==
    { << id, name >> \in BlockingIds \X AgentNames :
        /\ i.agents[id].present /\ i.agents[id].count = 0
        /\ i.agents[id][name] > 0 }

\* internals.unblocker(), the callback of the timer: every entry with count
\* 0 is deleted after the loop over its agents; the timer is set again
\* when an agent with sockets was found, and the field is left as it is
\* otherwise
unblocker(i) ==
    [i EXCEPT !.agents = [id \in BlockingIds |->
                             IF i.agents[id].present /\ i.agents[id].count = 0
                             THEN NoAgents ELSE i.agents[id]],
              !.unblockerTimer = IF standbyOf(i) # {} THEN "armed" ELSE "fired"]

PoolBecomes(i) ==
    /\ internals' = i
    /\ UNCHANGED << fvars, reader, delivered, resolved, probe, fsw >>

\* NodeFetcher.perform(uri, { blocking: id }) up to the request
PoolPerform ==
    \E id \in BlockingIds, name \in AgentNames \cup {"none"} :
        /\ internals.agents[id].count < MaxBlocking
        /\ PoolBecomes(useAgent(blockingConfig(internals, id), id, name))

\* `fetched` settles: the stream is fetched or has failed
PoolFetched ==
    \E id \in BlockingIds :
        /\ internals.agents[id].count > 0
        /\ PoolBecomes(unblock(internals, id))

\* a socket of an agent in the map is closed: by the server, or as a free
\* socket after freeSocketTimeout
PoolSocketClosed ==
    \E id \in BlockingIds, name \in AgentNames :
        /\ internals.agents[id][name] = 1
        /\ PoolBecomes([internals EXCEPT !.agents[id][name] = 0])

\* the timer expires after 10 s
PoolUnblocker ==
    /\ internals.unblockerTimer = "armed"
    /\ PoolBecomes(unblocker(internals))

NextPool == PoolPerform \/ PoolFetched \/ PoolSocketClosed \/ PoolUnblocker

\* ------------------------------------------------------------------- Init
Init ==
    /\ cfg \in Configs
    /\ IsF(FInit)
    /\ cancelCalled = FALSE /\ accepted = 0
    /\ reader = NoReader /\ delivered = << >> /\ resolved = << >>
    /\ probe = NoProbe
    /\ fsw = NewFsWatcher /\ internals = NewInternals

\* ------------------------------------------------- calls made by the user
\* index()
index_(s) ==
    IF s.latest.st # "none" THEN s
    ELSE LET s1 == [s EXCEPT !.watcher = IF cfg.proto = "file:" THEN "open" ELSE "none",
                             !.leaked = s.leaked \/ s.watcher = "open"]
         IN  IF fetchThrows(s1) # NoErr
             THEN [s1 EXCEPT !.ret = Ret("index", fetchThrows(s1))]
             ELSE [_fetchIndexFrom(s1, Req(cfg.head, FALSE,
                                           IF cfg.head THEN MsnPart("from", NoPlaylist)
                                           ELSE NoMsnPart))
                     EXCEPT !.latest = Promise("pending", NoSnap, NoErr)]

CallIndex == Becomes(index_(F))

\* Mutation: update() does not test whether an update is pending.
updateThrowsNoPending(s) ==
    IF s.index.kind = "none" THEN NoInitialIndex
    ELSE IF ~canUpdate(s) THEN CannotUpdate
    ELSE NoErr

\* Mutation: update() does not test canUpdate().
updateThrowsNoCan(s) ==
    IF s.pending THEN AlreadyUpdating
    ELSE IF s.index.kind = "none" THEN NoInitialIndex
    ELSE NoErr

\* Mutation: update() does not test whether an index is stored.
updateThrowsNoIndex(s) ==
    IF s.pending THEN AlreadyUpdating
    ELSE IF ~canUpdate(s) THEN CannotUpdate
    ELSE NoErr

\* the assertion of update() that fails, NoErr when the call is accepted
updateThrows(s) ==
    IF s.pending THEN AlreadyUpdating
    ELSE IF s.index.kind = "none" THEN NoInitialIndex
    ELSE IF ~canUpdate(s) THEN CannotUpdate
    ELSE NoErr

\* update({ timeout }), with _next() run up to its first suspension
update(s, finite, positive, throws) ==
    IF updateThrows(s) # NoErr THEN [s EXCEPT !.ret = Ret("update", updateThrows(s))]
    ELSE LET s1 == [_updateStallTimer(s, finite)
                      EXCEPT !.pending = TRUE, !.start = s.playlist,
                             !.wasUpdated = TRUE, !.wasError = FALSE]
         IN  _delayedUpdate(s1, positive, throws)

CallUpdate ==
    IF updateThrows(F) # NoErr
    THEN Becomes(update(F, FALSE, FALSE, FALSE))
    ELSE \E finite, positive, throws \in BOOLEAN :
            /\ accepted < MaxUpdates
            /\ Sets(update(F, finite, positive, throws))
            /\ accepted' = accepted + 1
            /\ UNCHANGED cancelCalled

\* cancel(reason)
CallCancel ==
    \E r \in CancelReasons :
        Sets(cancel(F, r)) /\ cancelCalled' = TRUE /\ UNCHANGED accepted

\* ------------------------------------------------------------ event loop
\* the stall timer expires: cancel(new Error('Index update stalled'))
StallExpire ==
    /\ stallTimer /\ ~MicrotaskQueued
    /\ Sets(cancel([F EXCEPT !.stallTimer = FALSE], StalledErr))
    /\ cancelCalled' = TRUE /\ UNCHANGED accepted

\* the request held by #fetch fails with e
fetchFailed(s, e) ==
    IF s.latest.st = "pending"
    THEN [fetchFinally(s) EXCEPT !.latest = Promise("rejected", NoSnap, e)]
    ELSE throw(fetchFinally(s), tagBlocking(e, s.req.blocking))

FetchFails ==
    /\ fetch # "none" /\ ~aborted /\ ~MicrotaskQueued
    /\ \E e \in FetchErrors, throws \in BOOLEAN : Becomes(resume(fetchFailed(F, e), throws))

\* the abort signal has ended the request held by #fetch
FetchAborted ==
    /\ fetch # "none" /\ aborted
    /\ \E throws \in BOOLEAN : Becomes(resume(fetchFailed(F, reason), throws))

\* the meta of a response as the step that received it observed it
MetaProbe(meta) ==
    [variant |-> "meta", err |-> meta, verdict |-> ~validateIndexMeta(meta)]

\* perform() resolves with a response whose meta is validated
FetchMeta ==
    /\ fetch = "perform" /\ ~aborted /\ ~MicrotaskQueued
    /\ \E meta \in Metas :
         /\ IF ~validateIndexMeta(meta)
            THEN BecomesWP([W EXCEPT !.f = [F EXCEPT !.fetch = "consume"]],
                           MetaProbe(meta))
            ELSE \E throws \in BOOLEAN :
                   BecomesWP([W EXCEPT !.f = resume(fetchFailed(F, MimeErr), throws)],
                             MetaProbe(meta))
         /\ UNCHANGED << cancelCalled, accepted >>

\* consumeUtf8() resolves with a text that parses as content
fetchDone(s, content) ==
    LET s1 == fetchFinally(s)
        e  == updateIndexThrows(s1, content)
        s2 == _updateIndex(s1, content)
    IN  IF s.latest.st = "pending"
        THEN [s2 EXCEPT !.latest = IF e # NoErr THEN Promise("rejected", NoSnap, e)
                                   ELSE Promise("resolved", Snap(0, content), NoErr)]
        ELSE IF e # NoErr THEN throw(s2, tagBlocking(e, s.req.blocking))
        ELSE [s2 EXCEPT !.pc = "stored", !.res = Snap(s.updates + 1, content)]

FetchDone ==
    /\ fetch = "consume" /\ ~aborted /\ ~MicrotaskQueued
    /\ \E content \in Indexes(cfg.block) \cup {NoIndex}, throws \in BOOLEAN :
         Becomes(resume(fetchDone(F, content), throws))

\* Mutation: _next returns every response it receives.
nextCheckAlways(s) == updateFinally(s, Promise("resolved", s.res, NoErr))
\* Mutation: _next retries after every response that has the same head.
nextCheckRetries(s) ==
    IF ~canUpdate(s) \/ ~isSameHead(s.start, s.res.index)
    THEN updateFinally(s, Promise("resolved", s.res, NoErr))
    ELSE [s EXCEPT !.wasUpdated = FALSE, !.pc = "retry", !.res = NoSnap]

\* _next resumes from `await this._delayedUpdate(...)` with res
nextCheck(s) ==
    IF ~canUpdate(s) \/ ~isSameHead(s.start, s.res.index)
    THEN updateFinally(s, Promise("resolved", s.res, NoErr))
    ELSE IF s.wasUpdated /\ canBlockReload(s.start)
    THEN nextCatch(s, Inconsistency, FALSE)
    ELSE [s EXCEPT !.wasUpdated = FALSE, !.pc = "retry", !.res = NoSnap]

NextCheck == pc = "stored" /\ Becomes(nextCheck(F))

\* _next resumes in its catch block with the error of update()'s first step
NextCatch ==
    /\ pc = "thrown"
    /\ \E throws \in BOOLEAN : Becomes(resume(F, throws))

\* `await wait(100)` of _next ends: the timer takes no abort signal
RetryElapsed ==
    /\ pc = "retry" /\ ~MicrotaskQueued
    /\ \E positive, throws, throws2 \in BOOLEAN :
         Becomes(resume(_delayedUpdate(F, positive, throws), throws2))

\* `await wait(delayMs, { signal })` ends with the timer
WaitElapsed ==
    /\ pc = "wait" /\ ~aborted
    /\ Becomes(delayedFetch(F, FALSE))

\* `await wait(delayMs, { signal })` is rejected by the abort signal
WaitAborted ==
    /\ pc = "wait" /\ aborted
    /\ \E throws \in BOOLEAN : Becomes(resume(throw(F, reason), throws))

\* `await this.#watcher.next(delayMs)` resolves: change, rename or timeout
WatchEvent ==
    /\ pc = "watch" /\ watcher = "open"
    /\ Becomes(delayedFetch(F, FALSE))

\* the watch reports an error
WatchError ==
    /\ watcher = "open" /\ ~MicrotaskQueued
    /\ Becomes([F EXCEPT !.watcher = "error"])

\* `await this.#watcher.next(delayMs)` rejects: the watcher was closed by
\* cleanup(), or it failed
WatchRejects ==
    /\ pc = "watch" /\ watcher # "open"
    /\ \E throws, throws2 \in BOOLEAN : Becomes(resume(watchRejected(F, throws), throws2))

\* ------------------------------------------------------------ the reader
TypeErr == Err("TypeError", 0)

\* HlsPlaylistSource.pull(controller) up to its await
pull(w, positive, throws) ==
    LET u == update(w.f, w.r.stallAfterMs, positive, throws)
    IN  [w EXCEPT !.f = u, !.r.rpc = "pull", !.r.perr = u.ret.thrown]
\* Mutation: the stream pulls whenever its queue is empty, as with a
\* highWaterMark of 1.
shouldCallPullEager(w) ==
    /\ w.r.state = "readable" /\ ~w.r.closeRequested /\ w.r.started
    /\ w.r.reads > 0 \/ w.r.queue = << >>

\* the stream calls pull() when a read request waits: with highWaterMark 0
\* the desired size is never positive
shouldCallPull(w) ==
    /\ w.r.state = "readable" /\ ~w.r.closeRequested /\ w.r.started
    /\ w.r.reads > 0

callPullIfNeeded(w, positive, throws) ==
    IF ~shouldCallPull(w) THEN w
    ELSE IF w.r.pulling THEN [w EXCEPT !.r.pullAgain = TRUE]
    ELSE pull([w EXCEPT !.r.pulling = TRUE], positive, throws)

\* controller.error(e)
error(w, e) ==
    IF w.r.state # "readable" THEN w
    ELSE [w EXCEPT !.r.state = "errored", !.r.storedError = e,
                   !.r.queue = << >>, !.r.reads = 0]

\* controller.enqueue(chunk) and controller.close() throw a TypeError
enqueueThrows(w) == w.r.closeRequested \/ w.r.state # "readable"

\* controller.enqueue(chunk): a pending read request takes the chunk
enqueue(w, chunk, positive, throws) ==
    callPullIfNeeded(
        IF w.r.reads > 0
        THEN [w EXCEPT !.r.reads = w.r.reads - 1, !.out = Append(w.out, chunk.id)]
        ELSE [w EXCEPT !.r.queue = Append(w.r.queue, chunk)],
        positive, throws)

\* controller.close()
close(w) ==
    IF w.r.queue # << >> THEN [w EXCEPT !.r.closeRequested = TRUE]
    ELSE [w EXCEPT !.r.closeRequested = TRUE, !.r.state = "closed", !.r.reads = 0]

\* Mutation: the source does not enqueue what it received.
afterAwaitDrops(w, p, positive, throws) ==
    IF p.st = "rejected" THEN [w EXCEPT !.r.perr = p.err]
    ELSE IF canUpdate(w.f) \/ enqueueThrows(w) THEN w
    ELSE close(w)

\* start() and pull() of the source from their await on, p being the
\* promise that was awaited: perr is the error the method rejects with
afterAwait(w, p, positive, throws) ==
    IF p.st = "rejected" THEN [w EXCEPT !.r.perr = p.err]
    ELSE IF enqueueThrows(w) THEN [w EXCEPT !.r.perr = TypeErr]
    ELSE LET w1 == enqueue(w, p.snap, positive, throws)
         IN  IF w1.r.state = "cancelled" THEN [w1 EXCEPT !.r.perr = TypeErr]
             ELSE IF canUpdate(w1.f) THEN w1
             ELSE IF enqueueThrows(w1) THEN [w1 EXCEPT !.r.perr = TypeErr]
             ELSE close(w1)

\* the promise returned by start() has settled
startSettled(w, positive, throws) ==
    LET w1 == [w EXCEPT !.r.rpc = "none", !.r.perr = NoErr]
    IN  IF w.r.perr # NoErr THEN error(w1, w.r.perr)
        ELSE callPullIfNeeded([w1 EXCEPT !.r.started = TRUE], positive, throws)

\* the promise returned by pull() has settled
pullSettled(w, positive, throws) ==
    LET w1 == [w EXCEPT !.r.rpc = "none", !.r.perr = NoErr]
    IN  IF w.r.perr # NoErr THEN error(w1, w.r.perr)
        ELSE IF ~w.r.pullAgain THEN [w1 EXCEPT !.r.pulling = FALSE]
        ELSE callPullIfNeeded([w1 EXCEPT !.r.pulling = FALSE, !.r.pullAgain = FALSE],
                              positive, throws)

\* reader.read() on a readable stream
read(w, positive, throws) ==
    IF w.r.queue = << >>
    THEN callPullIfNeeded([w EXCEPT !.r.reads = w.r.reads + 1,
                                    !.r.asked = w.r.asked + 1], positive, throws)
    ELSE LET w1 == [w EXCEPT !.r.queue = Tail(w.r.queue),
                             !.r.asked = w.r.asked + 1,
                             !.out = Append(w.out, Head(w.r.queue).id)]
         IN  IF w1.r.closeRequested /\ w1.r.queue = << >>
             THEN [w1 EXCEPT !.r.state = "closed"]
             ELSE callPullIfNeeded(w1, positive, throws)

\* stream.cancel(reason) on a readable stream, with HlsPlaylistSource.cancel
readerCancel(w) ==
    [w EXCEPT !.r.state = "cancelled", !.r.reads = 0, !.r.queue = << >>,
              !.f = cancel(w.f, NoErr)]

\* a step of a stream that owns the fetcher
BecomesR(w) ==
    /\ BecomesW(w)
    /\ accepted' = IF w.f.pending /\ ~pending THEN accepted + 1 ELSE accepted

\* new HlsPlaylistReadable(fetcher, options): start() runs up to its await
InitReader ==
    /\ cfg \in Configs
    /\ IsF(index_(FInit))
    /\ cancelCalled = FALSE /\ accepted = 0
    /\ \E stall \in BOOLEAN :
          reader = [NoReader EXCEPT !.state = "readable", !.rpc = "start",
                                    !.stallAfterMs = stall]
    /\ delivered = << >> /\ resolved = << >>
    /\ probe = NoProbe
    /\ fsw = NewFsWatcher /\ internals = NewInternals

\* the consumer reads
Read ==
    /\ reader.state = "readable" /\ reader.reads < MaxReads
    /\ \E positive, throws \in BOOLEAN :
         LET w == read(W, positive, throws)
         IN  /\ (w.f.pending /\ ~pending) => accepted < MaxUpdates
             /\ BecomesR(w) /\ UNCHANGED cancelCalled

\* the consumer cancels the stream
ReaderCancel ==
    /\ reader.state = "readable"
    /\ BecomesR(readerCancel(W)) /\ cancelCalled' = TRUE

\* start() resumes from `await this.fetch.index()`
StartResumes ==
    /\ startQueued
    /\ \E positive, throws \in BOOLEAN :
         /\ BecomesR(startSettled(afterAwait(W, latest, positive, throws),
                                  positive, throws))
         /\ UNCHANGED cancelCalled

\* pull() resumes from `await this.fetch.update(...)`
PullResumes ==
    /\ pullQueued
    /\ \E positive, throws \in BOOLEAN :
         LET p == IF reader.perr # NoErr
                  THEN Promise("rejected", NoSnap, reader.perr) ELSE latest
             w == pullSettled(afterAwait(W, p, positive, throws), positive, throws)
         IN  /\ (w.f.pending /\ ~pending) => accepted < MaxUpdates
             /\ BecomesR(w) /\ UNCHANGED cancelCalled

NextReader ==
    \/ Read \/ ReaderCancel \/ StartResumes \/ PullResumes
    \/ CallCancel
    \/ StallExpire
    \/ FetchFails \/ FetchAborted \/ FetchMeta \/ FetchDone
    \/ NextCheck \/ NextCatch \/ RetryElapsed
    \/ WaitElapsed \/ WaitAborted
    \/ WatchEvent \/ WatchError \/ WatchRejects

SpecReader == InitReader /\ [][NextReader]_vars

\* ------------------------------------------------------ the Node reader
\* HlsPlaylistReader._destroy(err, cb): `this.fetch.cancel(err || undefined)`
_destroy(w, e) == [w EXCEPT !.f = cancel(w.f, e)]

\* Mutation: _destroy() does not cancel the fetcher.
destroyKeepsFetcher(w, e) ==
    IF w.r.state # "readable" THEN w
    ELSE [w EXCEPT !.r.state = IF e = NoErr THEN "cancelled" ELSE "errored",
                   !.r.storedError = e, !.r.queue = << >>, !.r.reads = 0]

\* Readable.destroy(err): a no-op on a destroyed stream; the consumer
\* observes err
destroy(w, e) ==
    IF w.r.state # "readable" THEN w
    ELSE _destroy([w EXCEPT !.r.state = IF e = NoErr THEN "cancelled" ELSE "errored",
                            !.r.storedError = e, !.r.queue = << >>, !.r.reads = 0],
                  e)

\* the buffer is drained after push(null): 'end' is emitted and autoDestroy
\* destroys the stream without an error
endReadable(w) ==
    _destroy([w EXCEPT !.r.state = "closed", !.r.reads = 0], NoErr)

\* Readable.push(chunk): ignored on a destroyed stream; a consumer that
\* waits takes the chunk
push(w, chunk) ==
    IF w.r.state # "readable" \/ w.r.closeRequested THEN w
    ELSE IF w.r.reads > 0
    THEN [w EXCEPT !.r.pulling = FALSE, !.r.reads = w.r.reads - 1,
                   !.out = Append(w.out, chunk.id)]
    ELSE [w EXCEPT !.r.pulling = FALSE, !.r.queue = Append(w.r.queue, chunk)]

\* Readable.push(null)
pushNull(w) ==
    IF w.r.state # "readable" THEN w
    ELSE LET w1 == [w EXCEPT !.r.closeRequested = TRUE, !.r.pulling = FALSE]
         IN  IF w1.r.queue = << >> THEN endReadable(w1) ELSE w1

\* HlsPlaylistReader._read(): an assertion of update() that fails is caught
\* by Readable.read(), which destroys the stream with it
_read(w, positive, throws) ==
    LET w1 == [w EXCEPT !.r.pulling = TRUE]
    IN  IF ~w.r.hasIndex
        THEN [w1 EXCEPT !.f = index_(w.f), !.r.rpc = "index"]
        ELSE LET u == update(w.f, w.r.stallAfterMs, positive, throws)
             IN  IF u.ret.thrown # NoErr
                 THEN destroy([w1 EXCEPT !.f = u], u.ret.thrown)
                 ELSE [w1 EXCEPT !.f = u, !.r.rpc = "update"]
\* Mutation: _read() does not end the stream after the last snapshot.
readSettledNoEnd(w, p) ==
    LET w1 == [w EXCEPT !.r.rpc = "none"]
    IN  IF p.st = "rejected" THEN destroy(w1, p.err)
        ELSE push([w1 EXCEPT !.r.hasIndex = TRUE], p.snap)

\* the callbacks that _read() attached to the promise p, which has settled:
\* on a destroyed reader `this.fetch` is undefined and canUpdate() is called
\* on it
readSettled(w, p) ==
    LET w1 == [w EXCEPT !.r.rpc = "none"]
    IN  IF p.st = "rejected" THEN destroy(w1, p.err)
        ELSE LET w2 == push([w1 EXCEPT !.r.hasIndex = TRUE], p.snap)
             IN  IF w2.r.state # "readable" THEN [w2 EXCEPT !.r.unhandled = TypeErr]
                 ELSE IF canUpdate(w2.f) THEN w2
                 ELSE pushNull(w2)

\* the catch() that the constructor attached to index()
prefetchSettled(w, p) ==
    LET w1 == [w EXCEPT !.r.prefetch = FALSE]
    IN  IF p.st = "rejected" THEN destroy(w1, p.err) ELSE w1

\* Readable.read() by a consumer that waits for a chunk: with highWaterMark 0
\* _read() is called only when the buffer is empty
nodeRead(w, positive, throws) ==
    IF w.r.queue # << >>
    THEN LET w1 == [w EXCEPT !.r.queue = Tail(w.r.queue),
                             !.r.asked = w.r.asked + 1,
                             !.out = Append(w.out, Head(w.r.queue).id)]
         IN  IF w1.r.closeRequested /\ w1.r.queue = << >> THEN endReadable(w1)
             ELSE w1
    ELSE LET w1 == [w EXCEPT !.r.reads = w.r.reads + 1, !.r.asked = w.r.asked + 1]
         IN  IF w.r.pulling \/ w.r.closeRequested THEN w1
             ELSE _read(w1, positive, throws)

\* new HlsPlaylistReader(uri, options): the index is fetched at once
InitNode ==
    /\ cfg \in Configs
    /\ IsF(index_(FInit))
    /\ cancelCalled = FALSE /\ accepted = 0
    /\ \E stall \in BOOLEAN :
          reader = [NoReader EXCEPT !.state = "readable", !.prefetch = TRUE,
                                    !.stallAfterMs = stall]
    /\ delivered = << >> /\ resolved = << >>
    /\ probe = NoProbe
    /\ fsw = NewFsWatcher /\ internals = NewInternals

\* the consumer asks for a snapshot
NodeRead ==
    /\ reader.state = "readable" /\ reader.reads < MaxReads
    /\ \E positive, throws \in BOOLEAN :
         LET w == nodeRead(W, positive, throws)
         IN  /\ (w.f.pending /\ ~pending) => accepted < MaxUpdates
             /\ BecomesR(w) /\ UNCHANGED cancelCalled

\* the consumer calls reader.destroy(err)
NodeDestroy ==
    /\ reader.state = "readable"
    /\ \E e \in CancelReasons : BecomesR(destroy(W, e))
    /\ cancelCalled' = TRUE

\* the callbacks of a settled promise run: the constructor's before _read()'s
NodeResumes ==
    /\ nodeQueued
    /\ LET w1 == IF reader.prefetch THEN prefetchSettled(W, latest) ELSE W
           w2 == IF reader.rpc # "none" THEN readSettled(w1, latest) ELSE w1
       IN  BecomesR(w2)
    /\ UNCHANGED cancelCalled

NextNode ==
    \/ NodeRead \/ NodeDestroy \/ NodeResumes
    \/ CallCancel
    \/ StallExpire
    \/ FetchFails \/ FetchAborted \/ FetchMeta \/ FetchDone
    \/ NextCheck \/ NextCatch \/ RetryElapsed
    \/ WaitElapsed \/ WaitAborted
    \/ WatchEvent \/ WatchError \/ WatchRejects

SpecNode == InitNode /\ [][NextNode]_vars

\* ------------------------------------------- ParsedPlaylist on its own
\* A media playlist with what the LL-HLS view depends on.  A segment has a
\* uri or not, and parts: -1 for no `parts` property, else their number.
\* partTarget: the part-target of EXT-X-PART-INF, -1 without the tag.
\* hints: the EXT-X-PRELOAD-HINT entries, each with its type and whether it
\* has a uri.  holdBack: SERVER-CONTROL has a part-hold-back.
\* target_duration and a part target above 0 are even numbers of a unit of
\* time, so that their halves are exact.
Segment(uri, parts) == [uri |-> uri, parts |-> parts]

Segments == { Segment(uri, parts) : uri \in BOOLEAN, parts \in -1 .. MaxParts }

SegmentLists ==
    UNION { [1 .. n -> Segments] : n \in 0 .. MaxMsn + 1 }

\* An EXT-X-PRELOAD-HINT entry: its TYPE, whether it has a URI and which,
\* BYTERANGE-START and BYTERANGE-LENGTH (-1: the attribute is absent).
HintAttrs(type, name, offset, length) ==
    [type |-> type, uri |-> name # "", name |-> name, start |-> offset,
     length |-> length]

Hint(type, uri) == HintAttrs(type, IF uri THEN "uri:" ELSE "", -1, -1)

HintLists ==
    { << >>, << Hint("part", TRUE) >>, << Hint("part", FALSE) >>,
      << Hint("map", FALSE) >>, << Hint("PART", TRUE), Hint("other", TRUE) >> }

MediaPlaylist(segments, partTarget, hints, holdBack, iframes) ==
    [ segments |-> segments, partTarget |-> partTarget, hints |-> hints,
      holdBack |-> holdBack, i_frames_only |-> iframes, target_duration |-> 4,
      media_sequence |-> 0 ]

MediaPlaylists ==
    { MediaPlaylist(segs, pt, hints, hb, FALSE) :
        segs \in SegmentLists, pt \in {-1, 0, 1}, hints \in HintLists,
        hb \in BOOLEAN }

\* MediaSegment.isPartial(): parts and no uri
isPartial(seg) == ~seg.uri /\ seg.parts > 0

\* Mutation: the stripped copy keeps a trailing partial segment.
strippedKeepsPartial(idx) ==
    [idx EXCEPT !.partTarget = -1, !.hints = << >>, !.holdBack = FALSE,
                  !.segments = [i \in 1 .. Len(idx.segments) |->
                                   [idx.segments[i] EXCEPT !.parts = -1]]]

\* the copy that the constructor makes for noLowLatency
stripped(idx) ==
    LET n    == Len(idx.segments)
        kept == IF n > 0 /\ isPartial(idx.segments[n])
                THEN SubSeq(idx.segments, 1, n - 1) ELSE idx.segments
    IN  [idx EXCEPT !.partTarget = -1, !.hints = << >>, !.holdBack = FALSE,
                      !.segments = [i \in 1 .. Len(kept) |->
                                       [kept[i] EXCEPT !.parts = -1]]]

\* new ParsedPlaylist(index, { noLowLatency }) over such a playlist
NewParsedPlaylist(idx, noLowLatency) ==
    [ index |-> IF noLowLatency THEN stripped(idx) ELSE idx,
      strip |-> noLowLatency ]

\* ParsedPlaylist.partTarget: undefined is -1
partTarget(p) == p.index.partTarget

\* the lower-case form of the hint types that are tried
typeLower(type) ==
    IF type = "PART" THEN "part" ELSE IF type = "MAP" THEN "map" ELSE type

\* the object that the preloadHints getter fills: `part` and `map` are
\* NoHint (absent) or a PartData; the uri of a PartData is "" when
\* `attrs.get('uri', 'string')` is undefined, its byterange is NoByterange
\* or { offset, length } with length -1 for undefined
NoByterange == [offset |-> -1, length |-> -1]

PartData(uri, byterange) == [uri |-> uri, byterange |-> byterange]

NoHint == PartData("absent", NoByterange)

NoHints == [type \in {"part", "map"} |-> NoHint]

\* the entry made of one hint
hintData(attrs) ==
    PartData(attrs.name,
             IF attrs.start # -1
             THEN [offset |-> attrs.start, length |-> attrs.length]
             ELSE NoByterange)

\* Mutation: the first hint of a type is kept.
walkHintsKeepsFirst(list, hints) ==
    LET kept(type) ==
            { j \in 1 .. Len(list) :
                /\ typeLower(list[j].type) = type
                /\ (list[j].uri /\ type = "part") \/ type = "map" }
    IN  [type \in {"part", "map"} |->
            IF kept(type) = {} THEN hints[type]
            ELSE hintData(list[CHOOSE j \in kept(type) :
                                   \A k \in kept(type) : j <= k])]

\* the loop of the getter over the list, from the hints gathered so far.
\* `attrs.has('uri') && type === 'part' || type === 'map'`: && binds first
RECURSIVE walkHints(_, _)
walkHints(list, hints) ==
    IF list = << >> THEN hints
    ELSE LET attrs == list[1]
             type  == typeLower(attrs.type)
         IN  walkHints(Tail(list),
                       IF (attrs.uri /\ type = "part") \/ type = "map"
                       THEN [hints EXCEPT ![type] = hintData(attrs)]
                       ELSE hints)

\* ParsedPlaylist.preloadHints, the object
preloadHintsObject(p) == walkHints(p.index.hints, NoHints)

\* ParsedPlaylist.preloadHints: the keys of the object it returns
preloadHints(p) ==
    { type \in {"part", "map"} : preloadHintsObject(p)[type] # NoHint }

\* a ParsedPlaylist that was built, by the user or by a fetcher with the
\* given lowLatency option (_updateIndex)
Built(by, idx, noLowLatency) ==
    [ variant |-> by,
      err     |-> [index |-> idx, noLowLatency |-> noLowLatency],
      verdict |-> NewParsedPlaylist(idx, noLowLatency) ]

\* new ParsedPlaylist(index, { noLowLatency })
Construct ==
    /\ probe = NoProbe
    /\ \E idx \in MediaPlaylists, noLowLatency \in BOOLEAN :
          probe' = Built("constructor", idx, noLowLatency)
    /\ UNCHANGED << fvars, reader, delivered, resolved, fsw, internals >>

\* _updateIndex builds the playlist of a snapshot
SnapshotPlaylist ==
    /\ probe = NoProbe
    /\ \E idx \in MediaPlaylists, lowLatency \in BOOLEAN :
          probe' = Built(IF lowLatency THEN "fetcher, lowLatency" ELSE "fetcher",
                         idx, ~lowLatency)
    /\ UNCHANGED << fvars, reader, delivered, resolved, fsw, internals >>

\* the playlists an update interval is computed for: without segments, with
\* a complete last segment, with a partial one; without part target, with
\* part target 0 and 2; I-frames-only or not; target durations 2 and 6
IntervalPlaylists ==
    { [MediaPlaylist(segs, pt, << >>, FALSE, iframes) EXCEPT !.target_duration = td] :
        segs \in { << >>, << Segment(TRUE, -1) >>,
                   << Segment(TRUE, 1), Segment(FALSE, 1) >> },
        pt \in {-1, 0, 2}, iframes \in BOOLEAN, td \in {2, 6} }

\* Mutation: the interval is halved whatever it is taken from.
getUpdateIntervalHalvesBoth(p, updated) ==
    LET updateInterval == IF partTarget(p) > 0 /\ ~p.index.i_frames_only
                          THEN partTarget(p) ELSE p.index.target_duration
    IN  IF ~updated \/ Len(p.index.segments) = 0
        THEN updateInterval \div 2 ELSE updateInterval

\* getUpdateInterval({ index, partTarget }, updated)
getUpdateInterval(p, updated) ==
    IF partTarget(p) > 0 /\ ~p.index.i_frames_only THEN partTarget(p)
    ELSE IF ~updated \/ Len(p.index.segments) = 0
    THEN p.index.target_duration \div 2
    ELSE p.index.target_duration

\* the values of wasUpdated and wasError that _next passes on: an iteration
\* that fails or does not return clears wasUpdated
Polls == { << TRUE, FALSE >>, << FALSE, FALSE >>, << FALSE, TRUE >> }

\* _delayedUpdate: `this.getUpdateInterval(fromPlaylist, wasUpdated && !wasError)`
UpdateInterval ==
    /\ probe = NoProbe
    /\ \E idx \in IntervalPlaylists, noLowLatency \in BOOLEAN, poll \in Polls :
          LET fromPlaylist == NewParsedPlaylist(idx, noLowLatency)
          IN  probe' = [ variant |-> "interval",
                         err     |-> [ playlist |-> fromPlaylist,
                                       wasUpdated |-> poll[1],
                                       wasError |-> poll[2] ],
                         verdict |-> getUpdateInterval(fromPlaylist,
                                                       poll[1] /\ ~poll[2]) ]
    /\ UNCHANGED << fvars, reader, delivered, resolved, fsw, internals >>

\* MediaPlaylist.lastMsn(includePartial) of the playlist library: the
\* sequence number of the last segment, of the one before it when partial
\* segments are not counted and the last one is partial; -1 without segments
lastMsnOfSegments(idx, includePartial) ==
    LET n == Len(idx.segments)
    IN  IF n = 0 THEN -1
        ELSE IF ~includePartial /\ isPartial(idx.segments[n])
        THEN idx.media_sequence + n - 2
        ELSE idx.media_sequence + n - 1

\* what nextHead() gives: { msn } has part NoPart; a call that throws has
\* the name of what it throws
NoPart == -1

MsnHead(msn, part) == [throws |-> "", msn |-> msn, part |-> part]

HeadThrows(what) == [throws |-> what, msn |-> -1, part |-> NoPart]

\* Mutation: the segment after the last one is asked for, also when the
\* last one is still partial.
nextHeadRollsOver(p) ==
    IF partTarget(p) > 0 /\ ~p.index.i_frames_only
    THEN IF Len(p.index.segments) = 0 THEN HeadThrows("TypeError")
         ELSE MsnHead(lastMsnOfSegments(p.index, TRUE) + 1, 0)
    ELSE IF Len(p.index.segments) = 0 THEN MsnHead(p.index.media_sequence, NoPart)
    ELSE MsnHead(lastMsnOfSegments(p.index, FALSE) + 1, NoPart)

\* ParsedPlaylist.nextHead().  `arrayAt(this.segments, -1)!` is undefined
\* for an empty list, and reading its `parts` throws a TypeError.
nextHead(p) ==
    LET n == Len(p.index.segments)
    IN  IF partTarget(p) > 0 /\ ~p.index.i_frames_only
        THEN IF n = 0 THEN HeadThrows("TypeError")
             ELSE IF p.index.segments[n].uri
             THEN MsnHead(lastMsnOfSegments(p.index, TRUE) + 1, 0)
             ELSE MsnHead(lastMsnOfSegments(p.index, TRUE),
                       IF p.index.segments[n].parts = -1 THEN 0
                       ELSE p.index.segments[n].parts)
        ELSE IF n = 0 THEN MsnHead(p.index.media_sequence, NoPart)
        ELSE MsnHead(lastMsnOfSegments(p.index, FALSE) + 1, NoPart)

\* the playlists a head is computed for: every segment list, part target
\* absent, 0 and 1, I-frames-only or not, media sequence 0 and 20
HeadPlaylists ==
    { [MediaPlaylist(segs, pt, << >>, FALSE, iframes) EXCEPT !.media_sequence = ms] :
        segs \in SegmentLists, pt \in {-1, 0, 1}, iframes \in BOOLEAN,
        ms \in {0, 20} }

\* playlist.nextHead() on a playlist built with or without noLowLatency
NextHead ==
    /\ probe = NoProbe
    /\ \E idx \in HeadPlaylists, noLowLatency \in BOOLEAN :
          LET parsed == NewParsedPlaylist(idx, noLowLatency)
          IN  probe' = [ variant |-> "nextHead",
                         err     |-> [ playlist |-> parsed, of |-> idx,
                                       noLowLatency |-> noLowLatency ],
                         verdict |-> nextHead(parsed) ]
    /\ UNCHANGED << fvars, reader, delivered, resolved, fsw, internals >>

\* the hints that are tried: of type PART, MAP and another one, without
\* uri and with one of two, without byterange attributes, with a start,
\* with start and length, and with a length alone
HintEntries ==
    { HintAttrs(type, name, range[1], range[2]) :
        type \in {"PART", "MAP", "other"}, name \in {"", "a:", "b:"},
        range \in { << -1, -1 >>, << 0, -1 >>, << 0, 5 >>, << -1, 5 >> } }

\* playlist.preloadHints on a playlist with up to MaxHints hints, built with
\* or without noLowLatency
PreloadHints ==
    /\ probe = NoProbe
    /\ \E n \in 0 .. MaxHints, noLowLatency \in BOOLEAN :
       \E list \in [1 .. n -> HintEntries] :
          LET parsed == NewParsedPlaylist(
                            MediaPlaylist(<< Segment(TRUE, -1) >>, 1, list,
                                          FALSE, FALSE), noLowLatency)
          IN  probe' = [ variant |-> "preloadHints",
                         err     |-> [ playlist |-> parsed, list |-> list,
                                       noLowLatency |-> noLowLatency ],
                         verdict |-> preloadHintsObject(parsed) ]
    /\ UNCHANGED << fvars, reader, delivered, resolved, fsw, internals >>

NextPlaylist ==
    Construct \/ SnapshotPlaylist \/ UpdateInterval \/ NextHead \/ PreloadHints

SpecPlaylist == Init /\ [][NextPlaylist]_vars

\* ------------------------------------------------- the classifier alone
\* the statuses that are tried: the recoverable codes, the hard failures of
\* the content fetchers, and the edges of the server range
Statuses == { 0, 301, 400, 401, 404, 408, 410, 425, 429, 499, 500, 503, 599, 600 }

ErrorObjects ==
    { ErrorObject(b, h, c, boom, sys, par) :
        b \in {"true", "truthy", "unset"}, h \in Statuses,
        c \in {0, 400, 404, 503}, boom \in BOOLEAN, sys \in BOOLEAN,
        par \in BOOLEAN }

\* isRecoverableUpdateError(err) is called on a fetcher of some variant
Classify ==
    /\ probe = NoProbe
    /\ \E variant \in {"base", "node", "web"}, err \in ErrorObjects :
          probe' = Probe(variant, err, classify(variant, err))
    /\ UNCHANGED << fvars, reader, delivered, resolved, fsw, internals >>

NextClassify == Classify

SpecClassify == Init /\ [][NextClassify]_vars

\* ----------------------------------------------- the blocking agents alone
SpecPool == Init /\ [][NextPool]_vars

\* requests end, sockets that are not used are closed, timers expire
SpecPoolFair ==
    /\ SpecPool
    /\ WF_vars(PoolFetched) /\ WF_vars(PoolSocketClosed) /\ WF_vars(PoolUnblocker)

\* ------------------------------------------------------ the watcher alone
SpecWatcher == Init /\ [][NextWatcher]_vars
\* ------------------------------------- the fetcher of a file: over its watcher
\* The fetcher of a file: url together with the FsWatcher that index()
\* creates for it: `watcher` tells what the fetcher's reference is, fsw is
\* the watcher it refers to.  The stall timer is not armed and the
\* onProblem callback does not throw; the watch does not fail.

\* Mutation: next() does not look at the event it has kept.
watcherNextWaits(w) ==
    LET n == next([w EXCEPT !.last = "none"], TRUE)
    IN  IF n.ret.value = "promise" /\ PendingOf(w) # {}
        THEN [n EXCEPT !.overlapped = TRUE]
        ELSE n

\* `this.#watcher.next(delayMs)` as the fetcher calls it
watcherNext(w) ==
    LET n == next(w, TRUE)
    IN  IF n.ret.value \in EventTypes THEN [n EXCEPT !.unreported = "none"]
        ELSE IF n.ret.value = "promise" /\ PendingOf(w) # {}
        THEN [n EXCEPT !.overlapped = TRUE]
        ELSE n

\* what a step of the fetcher that takes it to s does to the watcher:
\* cleanup() closes it, the watcher wait of _delayedUpdate calls next()
fileWatcher(s) ==
    IF watcher = "open" /\ s.watcher = "none" THEN closeWatcher(Fsw)
    ELSE IF s.pc = "watch" /\ pc # "watch" THEN watcherNext(Fsw)
    ELSE Fsw

FileStep(s) ==
    /\ SetF(s) /\ fsw' = fileWatcher(s)
    /\ UNCHANGED << reader, delivered, resolved, probe, internals >>

\* a promise reaction of the fetcher is queued: also when next() has
\* returned an event, or the promise it returned has been resolved
FileQueued ==
    fetcherQueued \/ (pc = "watch" /\ watcher = "open" /\ fsw.deferred = 0)

\* index(): `this.#watcher = ChangeWatcher.create(url)`
FileIndex ==
    /\ latest.st = "none"
    /\ SetF(index_(F)) /\ fsw' = NewFsWatcher
    /\ UNCHANGED << reader, delivered, resolved, probe, cancelCalled, accepted,
                    internals >>

\* update()
FileUpdate ==
    /\ updateThrows(F) = NoErr /\ accepted < MaxUpdates /\ fsw.calls < MaxNext
    /\ \E positive \in BOOLEAN : FileStep(update(F, FALSE, positive, FALSE))
    /\ accepted' = accepted + 1 /\ UNCHANGED cancelCalled

\* cancel()
FileCancel ==
    /\ ~aborted
    /\ FileStep(cancel(F, NoErr))
    /\ cancelCalled' = TRUE /\ UNCHANGED accepted

\* perform() resolves with a response whose meta is valid
FileFetchMeta ==
    /\ fetch = "perform" /\ ~aborted /\ ~FileQueued
    /\ FileStep([F EXCEPT !.fetch = "consume"])
    /\ UNCHANGED << cancelCalled, accepted >>

\* the request fails, or the abort signal ends it
FileFetchFails ==
    /\ fetch # "none" /\ (aborted \/ ~FileQueued)
    /\ \E e \in IF aborted THEN {reason} ELSE FetchErrors :
          FileStep(resume(fetchFailed(F, e), FALSE))
    /\ UNCHANGED << cancelCalled, accepted >>

\* consumeUtf8() resolves with a text that parses as content
FileFetchDone ==
    /\ fetch = "consume" /\ ~aborted /\ ~FileQueued
    /\ \E content \in Indexes(cfg.block) \cup {NoIndex} :
          FileStep(resume(fetchDone(F, content), FALSE))
    /\ UNCHANGED << cancelCalled, accepted >>

\* _next resumes with res
FileNextCheck ==
    /\ pc = "stored"
    /\ FileStep(nextCheck(F))
    /\ UNCHANGED << cancelCalled, accepted >>

\* `await wait(100)` of _next ends
FileRetryElapsed ==
    /\ pc = "retry" /\ ~FileQueued /\ fsw.calls < MaxNext
    /\ fsw.immediates = << >> /\ ~fsw.closing
    /\ \E positive \in BOOLEAN :
          FileStep(resume(_delayedUpdate(F, positive, FALSE), FALSE))
    /\ UNCHANGED << cancelCalled, accepted >>

\* `await this.#watcher.next(delayMs)` resumes with an event or 'timeout'
FileWatchReturns ==
    /\ pc = "watch" /\ watcher = "open" /\ fsw.deferred = 0
    /\ FileStep(delayedFetch(F, FALSE))
    /\ UNCHANGED << cancelCalled, accepted >>

\* `await this.#watcher.next(delayMs)` rejects: the watcher was closed
FileWatchRejects ==
    /\ pc = "watch" /\ watcher # "open"
    /\ FileStep(resume(watchRejected(F, FALSE), FALSE))
    /\ UNCHANGED << cancelCalled, accepted >>

\* the event loop of the watcher: I/O, check phase and timers run when no
\* promise reaction is queued
FileChange == watcher = "open" /\ ~FileQueued /\ FsChange

FileClosed == watcher # "open" /\ FsClosed

FileImmediate == ~FileQueued /\ FsImmediate

FileTimeout == ~FileQueued /\ FsTimeout

NextFile ==
    \/ FileIndex \/ FileUpdate \/ FileCancel
    \/ FileFetchMeta \/ FileFetchFails \/ FileFetchDone
    \/ FileNextCheck \/ FileRetryElapsed
    \/ FileWatchReturns \/ FileWatchRejects
    \/ FileChange \/ FileClosed \/ FileImmediate \/ FileTimeout

InitFile == Init /\ cfg = Config("file:", TRUE, FALSE, FALSE)

SpecFile == InitFile /\ [][NextFile]_vars

\* ---------------------------------------------------- the fetcher alone
Next ==
    \/ CallIndex \/ CallUpdate \/ CallCancel
    \/ StallExpire
    \/ FetchFails \/ FetchAborted \/ FetchMeta \/ FetchDone
    \/ NextCheck \/ NextCatch \/ RetryElapsed
    \/ WaitElapsed \/ WaitAborted
    \/ WatchEvent \/ WatchError \/ WatchRejects

Spec == Init /\ [][Next]_vars

\* the event loop runs every callback that is due: timers expire, a request
\* ends (its timeout is 30 s), promise reactions run.  Nothing obliges the
\* user to call, nor the watch to fail.
Fairness ==
    /\ WF_vars(StallExpire)
    /\ WF_vars(FetchAborted)
    /\ WF_vars(FetchFails \/ FetchMeta \/ FetchDone)
    /\ WF_vars(NextCheck) /\ WF_vars(NextCatch) /\ WF_vars(RetryElapsed)
    /\ WF_vars(WaitElapsed) /\ WF_vars(WaitAborted)
    /\ WF_vars(WatchEvent) /\ WF_vars(WatchRejects)

SpecFair == Spec /\ Fairness

\* =================================================================== C1
\* the number of update() calls that were accepted and have not settled
unsettled == accepted - updates

\* C1: with a stored index and canUpdate() true, update() throws 'An update
\* is already being fetched' exactly when an accepted update() has not
\* settled; with every accepted call settled #pending is clear and update()
\* is accepted.
C1_SingleFlight ==
    /\ ret = Ret("update", AlreadyUpdating) => unsettled > 0
    /\ (index.kind # "none" /\ canUpdate(F)) =>
          /\ updateThrows(F) = AlreadyUpdating <=> unsettled > 0
          /\ unsettled = 0 => ~pending /\ updateThrows(F) = NoErr

\* a second update() was refused while the second accepted one was pending
C1_Witness ==
    /\ ret = Ret("update", AlreadyUpdating)
    /\ updates = 1 /\ accepted = 2 /\ canUpdate(F)

\* =================================================================== C2
\* C2: at most one perform() request is outstanding, and nothing has failed
\* with the 'Already fetching' assertion.
C2_OneFetch ==
    /\ performs <= 1
    /\ performs = 1 <=> fetch # "none"
    /\ AlreadyFetching \notin { ret.thrown, thrown, latest.err, lastProblem }
    /\ \A blocking \in BOOLEAN :
          pc \in {"retry", "wait", "watch"} =>
              delayedFetch(F, blocking).thrown # AlreadyFetching

\* a request of a retry is outstanding after cancel() was called
C2_Witness == performs = 1 /\ pending /\ wasError /\ cancelCalled

\* =================================================================== C3
\* C3: before an index is stored, or while canUpdate() is false, update()
\* throws and leaves every field of the fetcher as it was.
C3_UpdateRefused ==
    (index.kind = "none" \/ ~canUpdate(F)) =>
        /\ updateThrows(F) # NoErr
        /\ \A finite, positive, throws \in BOOLEAN :
              update(F, finite, positive, throws)
                  = [F EXCEPT !.ret = Ret("update", updateThrows(F))]
        /\ ret.op = "update" => ret.thrown # NoErr

\* update() was refused while index() is in flight
C3_Witness ==
    /\ ret = Ret("update", NoInitialIndex)
    /\ latest.st = "pending" /\ fetch # "none" /\ ~stallTimer /\ ~pending

\* =================================================================== C4
\* C4: canUpdate() is true exactly when cancel() has not been called and the
\* stored index is a live media playlist.
C4_CanUpdate ==
    canUpdate(F) <=> (~cancelCalled /\ index.kind = "media" /\ index.live)

\* a live media playlist is stored and cancel() has been called
C4_Witness ==
    cancelCalled /\ index.kind = "media" /\ index.live /\ ~canUpdate(F)

\* =================================================================== C5
\* C5 as stated: lastMsn(true) never decreases from one stored media index
\* to the next.
C5_Monotonic ==
    [][ (index.kind = "media" /\ index'.kind = "media") =>
            lastMsn(index', TRUE) >= lastMsn(index, TRUE) ]_vars

\* C5: lastMsn(true) decreases from one stored media index to the next only
\* with the response that follows two rejected backward responses in a row.
C5_MonotonicButThird ==
    [][ (index.kind = "media" /\ index'.kind = "media"
            /\ lastMsn(index', TRUE) < lastMsn(index, TRUE)) =>
            rejected = 2 /\ rejected' = 0 ]_vars

\* the response just stored is behind the snapshot delivered before it
C5_Witness ==
    /\ pc = "stored" /\ res.index = index /\ latest.st = "resolved"
    /\ lastMsn(index, TRUE) < lastMsn(latest.snap.index, TRUE)

\* =================================================================== C6
\* a response that is behind the stored index
backward(content) ==
    /\ index.kind = "media" /\ content.kind = "media"
    /\ lastMsn(content, TRUE) < lastMsn(index, TRUE)

\* the step reports 'Rejected update from the past'
reportsRejected == lastProblem'.name = RejectedErr.name

\* C6: #rejected is in 0..2; a backward response that arrives is rejected
\* exactly when #rejected < 2 and counted, and stored when #rejected = 2;
\* every stored response resets #rejected; nothing else changes #rejected.
C6_Rejected ==
    /\ [](rejected \in 0..2)
    /\ [](\A content \in IF fetch = "consume" THEN Indexes(cfg.block) ELSE {} :
            /\ backward(content) =>
                 /\ updateIndexThrows(F, content) = RejectedErr <=> rejected < 2
                 /\ rejected < 2 =>
                      /\ _updateIndex(F, content).rejected = rejected + 1
                      /\ _updateIndex(F, content).index = index
                 /\ rejected = 2 =>
                      /\ updateIndexThrows(F, content) = NoErr
                      /\ _updateIndex(F, content).index = content
            /\ updateIndexThrows(F, content) = NoErr =>
                 _updateIndex(F, content).rejected = 0)
    /\ [][ /\ reportsRejected <=> rejected' = rejected + 1
           /\ rejected' # rejected =>
                \/ rejected' = rejected + 1 /\ index' = index
                \/ rejected' = 0 /\ updatedOf' = "index" ]_vars

\* two backward responses were rejected, one in each of two update() calls
C6_Witness == rejected = 2 /\ updates = 1 /\ pending /\ latest.st = "rejected"

\* =================================================================== C7
\* the step settles the pending update()
settles == updates' = updates + 1

\* C7: an accepted update() settles once; it resolves only with a response
\* whose head differs from the playlist of the call's start, or when
\* canUpdate() is false; an iteration with the same head, or one that
\* reported a problem, does not resolve it.
C7_Resolve ==
    [][ /\ unsettled' = IF pending' THEN 1 ELSE 0
        /\ settles => pending /\ ~pending' /\ latest'.st \in {"resolved", "rejected"}
        /\ (settles /\ latest'.st = "resolved") =>
              /\ pc = "stored" /\ latest'.snap = res /\ res.index = index
              /\ ~isSameHead(start, res.index) \/ ~canUpdate(F)
        /\ (pc = "stored" /\ canUpdate(F) /\ isSameHead(start, res.index)
               /\ pc' # "stored") =>
              ~settles \/ latest'.st = "rejected"
        /\ problems' > 0 => ~settles \/ latest'.st = "rejected" ]_vars

\* the second update() has resolved after an iteration that failed
C7_Witness ==
    /\ updates = 2 /\ latest.st = "resolved" /\ latest.snap.id = 2
    /\ canUpdate(F)

\* =================================================================== C8
IsPrefix(s, q) == Len(s) <= Len(q) /\ SubSeq(q, 1, Len(s)) = s

\* ids of the snapshots in the stream's queue
queued == [i \in 1..Len(reader.queue) |-> reader.queue[i].id]

\* C8: what the consumer has received, followed by what the stream holds for
\* it, is the sequence index() and the update() calls resolved with, once
\* the source has resumed; a stream the consumer cancelled delivers a prefix.
C8_InOrder ==
    /\ IsPrefix(delivered \o queued, resolved)
    /\ (reader.state \in {"readable", "closed", "errored"} /\ ~MicrotaskQueued)
          => delivered \o queued = resolved

\* the consumer has received the index and two updates
C8_Witness ==
    /\ Len(delivered) = 3 /\ delivered = resolved /\ reader.state = "readable"

\* =================================================================== C9
\* the errors an iteration of _next can catch
IterationErrors ==
    { tagBlocking(e, b) :
        e \in FetchErrors \cup CancelReasons \cup
              { ParserErr, RejectedErr, MimeErr, CastErr, DataErr, Inconsistency,
                AbortErr, StalledErr, ProblemErr },
        b \in BOOLEAN }

\* the request is issued, or the delay that precedes it has begun
attempts(s) == s.pc \in {"wait", "watch"} \/ (s.pc = "fetch" /\ s.performs = 1)

\* C9: a recoverable error of an iteration is reported once, the update()
\* stays pending and waits to retry; when the wait ends a new attempt starts,
\* unless the fetcher was cancelled; the step changes nothing of the stream
\* and of what the consumer received.
C9_Recoverable ==
    /\ [](\A e \in IterationErrors :
            (pending /\ isRecoverableUpdateError(e)) =>
                LET n == nextCatch(F, e, FALSE)
                IN  /\ n.problems = 1 /\ n.lastProblem = e
                    /\ n.pending /\ n.updates = updates /\ n.latest = latest
                    /\ n.pc = "retry" /\ n.wasError)
    /\ []((pc = "retry" /\ ~aborted) =>
            \A positive \in BOOLEAN : attempts(_delayedUpdate(F, positive, FALSE)))
    /\ []((pc \in {"wait", "watch"} /\ ~MicrotaskQueued) =>
            attempts(delayedFetch(F, FALSE)))
    /\ [][ (problems' > 0 /\ lastProblem' # WatchErr /\ pending') =>
              /\ problems' = 1 /\ isRecoverableUpdateError(lastProblem')
              /\ pc' = "retry" /\ updates' = updates
              /\ latest' = latest /\ resolved' = resolved
              /\ reader' = reader /\ delivered' = delivered ]_vars

\* two responses in a row were rejected within the first update(), which is
\* still pending for a read of the consumer
C9_Witness ==
    /\ rejected = 2 /\ problems = 1 /\ pc = "retry" /\ accepted = 1 /\ updates = 0
    /\ reader.state = "readable" /\ reader.reads = 1 /\ delivered = << 0 >>

\* ================================================================== C10
\* C10: when onProblem throws on a recoverable error, update() rejects with
\* what it threw and the fetcher holds no request and attempts none; the
\* stream, unless cancelled, fails with the same error.
C10_ProblemThrows ==
    /\ [](\A e \in IterationErrors :
            (pending /\ isRecoverableUpdateError(e)) =>
                LET n == nextCatch(F, e, TRUE)
                IN  /\ n.problems = 1 /\ n.lastProblem = e
                    /\ ~n.pending /\ n.updates = updates + 1
                    /\ n.latest = Promise("rejected", NoSnap, ProblemErr)
                    /\ n.pc = "idle" /\ n.fetch = fetch /\ n.performs = performs)
    /\ [](latest.err = ProblemErr =>
            /\ ~pending /\ pc = "idle" /\ fetch = "none" /\ performs = 0
            /\ (reader.state # "cancelled" /\ ~pullQueued) =>
                  reader.state = "errored" /\ reader.storedError = ProblemErr)
    /\ [][ (pullQueued /\ latest.err = ProblemErr /\ reader.state = "readable"
               /\ reader'.rpc = "none") =>
              reader'.state = "errored" /\ reader'.storedError = ProblemErr ]_vars

\* the stream has failed with the error onProblem threw, after the index
\* was delivered
C10_Witness ==
    /\ reader.state = "errored" /\ reader.storedError = ProblemErr
    /\ latest = Promise("rejected", NoSnap, ProblemErr)
    /\ lastProblem = NoErr /\ delivered = << 0 >>

\* ================================================================== C11
\* C11: an error of update() that is not recoverable, and every error of
\* the initial index(), rejects the call with that error: onProblem is not
\* invoked with it and no request or retry follows; the stream, unless the
\* consumer cancelled it, fails with the same error and delivers nothing
\* more.
C11_Fatal ==
    /\ [](\A e \in IterationErrors, throws \in BOOLEAN :
            (pending /\ ~isRecoverableUpdateError(e)) =>
                LET n == nextCatch(F, e, throws)
                IN  /\ n.problems = 0 /\ ~n.pending /\ n.pc = "idle"
                    /\ n.latest = Promise("rejected", NoSnap, e)
                    /\ n.performs = performs /\ n.updates = updates + 1)
    /\ [](\A e \in IterationErrors :
            (latest.st = "pending" /\ fetch # "none") =>
                LET n == fetchFailed(F, e)
                IN  /\ n.problems = 0 /\ n.fetch = "none" /\ n.performs = 0
                    /\ n.latest = Promise("rejected", NoSnap, e)
                    /\ n.pc = "idle" /\ ~n.pending)
    /\ []((latest.st = "rejected" /\ ~MicrotaskQueued /\ reader.state # "cancelled") =>
            /\ reader.state = "errored" /\ reader.storedError = latest.err
            /\ reader.queue = << >> /\ fetch = "none" /\ ~pending)
    /\ [][ /\ (latest' # latest /\ latest'.st = "rejected") =>
                /\ lastProblem' # latest'.err
                /\ latest.st = "pending" => problems' = 0
                /\ pc' = "idle" /\ fetch' = "none" /\ ~pending'
           /\ reader.state = "errored" =>
                delivered' = delivered /\ reader' = reader /\ accepted' = accepted ]_vars

\* the stream has failed with a status that is not recoverable, after the
\* index was delivered
C11_Witness ==
    /\ reader.state = "errored" /\ reader.storedError = Err("Fetch failed", 400)
    /\ latest.st = "rejected" /\ delivered = << 0 >> /\ updates = 1

\* ================================================================== C12
\* the HTTP status the class of the probe reads from the error: the node
\* class reads output.statusCode of a Boom error, the web class statusCode,
\* and each falls back to httpStatus
statusRead ==
    LET own == IF probe.variant = "node" /\ probe.err.isBoom THEN probe.err.statusCode
               ELSE IF probe.variant = "web" THEN probe.err.statusCode
               ELSE 0
    IN  IF own # 0 THEN own ELSE probe.err.httpStatus

\* C12: isRecoverableUpdateError answers true exactly for an error tagged
\* isBlocking === true; otherwise for a status of 404, 408, 425, 429 or
\* 500..599; otherwise, when there is no status, for a parser error; and in
\* the node class for an error with a syscall.  Every other error is not
\* recoverable.
C12_Classifier ==
    /\ probe.variant # "none" =>
          probe.verdict =
              \/ probe.variant = "node" /\ probe.err.syscall
              \/ probe.err.isBlocking = "true"
              \/ /\ probe.err.isBlocking # "true"
                 /\ statusRead \in {404, 408, 425, 429} \cup 500..599
              \/ /\ probe.err.isBlocking # "true" /\ statusRead = 0
                 /\ probe.err.parser
    /\ ~isRecoverableUpdateError(MimeErr) /\ ~isRecoverableUpdateError(Inconsistency)
    /\ \A e \in IterationErrors :
          isRecoverableUpdateError(e) =
              isRecoverableBase(
                  ErrorObject(IF e.isBlocking THEN "true" ELSE "unset", e.status, 0,
                              FALSE, FALSE, e.name = ParserErr.name), 0)

\* an error with status 599 and no tag was found recoverable, and one with
\* status 410 would not be
C12_Witness ==
    /\ probe.variant = "web" /\ probe.err.isBlocking = "unset"
    /\ probe.err.statusCode = 0 /\ probe.err.httpStatus = 599 /\ probe.verdict
    /\ ~classify("web", [probe.err EXCEPT !.httpStatus = 410])

\* ================================================================== C13
\* C13 as stated, its part on termination: once cancel() has been called,
\* a pending index() or update() settles.
C13_CancelSettles ==
    (cancelCalled /\ (pending \/ latest.st = "pending"))
        ~> (~pending /\ latest.st # "pending")

\* the cancelled fetcher has reported the cancel reason as a problem and
\* waits to retry the update()
C13_Witness ==
    /\ aborted /\ pending /\ pc = "retry" /\ problems = 1
    /\ lastProblem.name = reason.name /\ reason.status = 503

\* ================================================================== C14
\* once the stall timer has expired the fetcher is cancelled, the update()
\* that was pending rejects with the error 'Index update stalled', of the
\* given name, and the stream, unless the consumer cancelled it, fails with
\* that error
stallOutcome(name) ==
    reason = StalledErr =>
        /\ aborted /\ ~stallTimer
        /\ pending \/ latest.st = "rejected"
        /\ latest.st = "rejected" =>
              /\ latest.err = StalledErr /\ errorName(latest.err) = name
              /\ (reader.state # "cancelled" /\ ~MicrotaskQueued) =>
                    reader.state = "errored" /\ reader.storedError = StalledErr

\* C14 as stated: a stalled update() rejects with a TimeoutError whose
\* message is 'Index update stalled', and the stream fails with it.
C14_StallTimeout == stallOutcome("TimeoutError")

\* the stream has failed with the stall error after the index was delivered
C14_Witness ==
    /\ reader.state = "errored" /\ reader.storedError = StalledErr
    /\ reader.stallAfterMs /\ latest = Promise("rejected", NoSnap, StalledErr)
    /\ delivered = << 0 >>

\* ================================================================== C15
\* C15: the stall timer is armed only while an update() is pending: only a
\* step that accepts an update() arms it (index() never does), the step in
\* which the update() settles disarms it, and the timer cancels the fetcher
\* only while its update() is pending.
C15_StallArmed ==
    /\ [](stallTimer => pending)
    /\ [][ /\ (stallTimer' /\ ~stallTimer) => (accepted' = accepted + 1 /\ pending')
           /\ (pending /\ ~pending') => ~stallTimer'
           /\ (reason' = StalledErr /\ reason # StalledErr) =>
                 (stallTimer /\ pending /\ pending') ]_vars

\* a first update() has settled, which disarmed whatever timer it had, and a
\* second update(), accepted with a finite timeout, is pending with its timer
\* armed
C15_Witness ==
    /\ updates = 1 /\ accepted = 2 /\ pending /\ stallTimer
    /\ ~aborted /\ reason = NoErr /\ pc = "wait"
\* ================================================================== C16
\* the consumer's last read returned the newest snapshot, whose index is a
\* master playlist or a media playlist that is not live
deliveredLast ==
    /\ delivered # << >> /\ latest.st = "resolved"
    /\ delivered[Len(delivered)] = latest.snap.id
    /\ ~isLive(latest.snap.index)

\* C16: once the reader has delivered a snapshot whose index is a master
\* playlist or a media playlist that is not live, the stream has ended, and
\* from then on nothing is delivered, no index() or update() is started and
\* no request is issued.
C16_EndOfStream ==
    /\ [](deliveredLast =>
            /\ reader.state = "closed" /\ reader.reads = 0
            /\ ~pending /\ fetch = "none" /\ performs = 0 /\ pc = "idle")
    /\ [][ deliveredLast =>
             /\ delivered' = delivered /\ latest' = latest
             /\ accepted' = accepted /\ updates' = updates
             /\ ~pending' /\ fetch' = "none" /\ performs' = 0
             /\ reader'.state = "closed" ]_vars

\* the stream has ended after a second snapshot, of a playlist that ended
C16_Witness ==
    /\ deliveredLast /\ delivered = << 0, 1 >> /\ reader.state = "closed"
    /\ latest.snap.index.kind = "media" /\ updates = 1

\* ================================================================== C17
\* C17: the update() calls the reader has started are at most the consumer's
\* read requests minus one; an update() is started only by a step that
\* leaves a read request waiting on an empty queue; and while the consumer
\* has never read, no update() has been started and the only request is that
\* of the initial index().
C17_OnDemand ==
    /\ [](accepted <= IF reader.asked = 0 THEN 0 ELSE reader.asked - 1)
    /\ [](reader.asked = 0 =>
            /\ ~pending /\ updates = 0 /\ performs <= 1
            /\ fetch # "none" => latest.st = "pending")
    /\ [][ accepted' > accepted =>
             /\ reader.queue = << >> /\ reader'.queue = << >>
             /\ reader'.reads > 0 ]_vars

\* the first snapshot was read, the second read request started the only
\* update()
C17_Witness ==
    /\ reader.asked = 2 /\ accepted = 1 /\ pending /\ delivered = << 0 >>
    /\ reader.reads = 1 /\ reader.queue = << >>

\* ================================================================== C18
\* C18: a reader that has been destroyed has a cancelled fetcher that cannot
\* update; from then on no request is issued, no update() is started and no
\* response is stored; the step that destroys the reader leaves the fetcher
\* aborted, with the error given to destroy() (AbortError without one) as
\* the reason unless the fetcher was cancelled before; and the error given
\* to destroy() is what the consumer observes from then on.
C18_DestroyCancels ==
    /\ [](reader.state # "readable" => aborted /\ ~canUpdate(F))
    /\ [][ reader.state # "readable" =>
             /\ performs' <= performs /\ accepted' = accepted
             /\ index' = index /\ delivered' = delivered
             /\ reader'.state = reader.state
             /\ reader'.storedError = reader.storedError ]_vars
    /\ [][ (reader.state = "readable" /\ reader'.state \in {"cancelled", "errored"}) =>
             /\ aborted'
             /\ ~aborted => reason' = IF reader'.storedError = NoErr THEN AbortErr
                                      ELSE reader'.storedError
             /\ aborted => reason' = reason ]_vars

\* the consumer destroyed the reader with an error while index() was
\* pending: index() was rejected with that error, which the consumer observes
C18_Witness ==
    /\ reader.state = "errored" /\ reader.storedError \in CancelReasons
    /\ cancelCalled /\ reason = reader.storedError
    /\ latest = Promise("rejected", NoSnap, reason) /\ updates = 0
    /\ fetch = "none" /\ ~reader.prefetch

\* ================================================================== C19
\* a call of index() made now issues no request, creates no watcher and
\* changes nothing: it returns #latest
indexRepeats ==
    /\ index_(F) = F
    /\ index_(F).performs = performs /\ index_(F).watcher = watcher
    /\ index_(F).latest = latest

\* C19 as stated: once index() has been called, every later call issues no
\* request and returns the promise of the first call, also after update()
\* calls have settled.
C19_Idempotent ==
    latest.st # "none" =>
        /\ indexRepeats
        /\ index_(F).latest.st = "resolved" => index_(F).latest.snap.id = 0
        /\ index_(F).latest.st = "rejected" => updates = 0

\* C19, amended: once index() has returned a promise, every later call
\* issues no request, creates no watcher and returns #latest, which is the
\* promise of the first call until an update() has settled and from then on
\* the promise of the update() that settled last, resolved with its snapshot
\* or rejected with its error.
C19_ReturnsLatest ==
    /\ [](latest.st # "none" =>
            /\ indexRepeats
            /\ index_(F).latest.st = "resolved" => index_(F).latest.snap.id = updates)
    /\ [][ /\ (updates' = updates /\ latest.st \in {"resolved", "rejected"})
                => latest' = latest
           /\ updates' # updates =>
                /\ updates' = updates + 1 /\ pending /\ ~pending'
                /\ latest'.st \in {"resolved", "rejected"}
                /\ latest'.st = "resolved" => latest'.snap.id = updates' ]_vars

\* two update() calls have settled, the second with a snapshot: that is
\* what index() returns now, without a request
C19_Witness ==
    /\ updates = 2 /\ ~pending /\ fetch = "none"
    /\ index_(F).latest = Promise("resolved", Snap(2, index), NoErr)
    /\ index_(F).performs = 0 /\ ~aborted

\* ================================================================== C20
\* C20: on a data: url, once index() has resolved with a live playlist, an
\* update() that is accepted neither waits nor issues a request: it is
\* rejected with 'data: uri cannot be updated' by the promise reaction that
\* is queued when it is called, onProblem is never invoked and the stored
\* index never changes;
\* the reader delivers the one snapshot of index() and, unless it was
\* cancelled, fails with that error.
C20_DataUrl ==
    /\ [](cfg.proto = "data:" =>
            /\ pending => (pc = "thrown" /\ thrown = DataErr /\ fetch = "none")
            /\ updates > 0 => latest = Promise("rejected", NoSnap, DataErr)
            /\ index.kind # "none" => (performs = 0 /\ problems = 0)
            /\ Len(delivered) <= 1
            /\ (reader.state = "errored" /\ index.kind # "none" /\ ~aborted)
                  => (reader.storedError = DataErr /\ delivered = << 0 >>))
    /\ [][ (cfg.proto = "data:" /\ index.kind # "none") =>
             /\ index' = index /\ performs' = 0 /\ problems' = 0
             /\ pc' \in {"idle", "thrown"} ]_vars

\* the reader of a live data: playlist has delivered the index and failed
\* with the error of its first update()
C20_Witness ==
    /\ cfg.proto = "data:" /\ isLive(index) /\ delivered = << 0 >>
    /\ reader.state = "errored" /\ reader.storedError = DataErr
    /\ updates = 1 /\ latest = Promise("rejected", NoSnap, DataErr) /\ ~aborted

\* ================================================================== C21
\* the text ends with the suffix
endsWith(str, suffix) ==
    Len(str) >= Len(suffix)
        /\ SubSeq(str, Len(str) - Len(suffix) + 1, Len(str)) = suffix

\* C21: a response is accepted, and its body read, exactly when its MIME
\* type is in any case one of the three playlist types or its url ends in
\* .m3u8 or .m3u; otherwise the call is rejected by that step with 'Invalid
\* MIME type', which is not recoverable: onProblem is not invoked, the body
\* is never read, no request is left and nothing that is stored changes.
C21_Mime ==
    /\ [](probe.variant = "meta" =>
            /\ probe.verdict <=>
                  \/ toLowerCase(probe.err.mime) \in
                        { "application/vnd.apple.mpegurl", "application/x-mpegurl",
                          "audio/mpegurl" }
                  \/ endsWith(probe.err.url, << ".", "m", "3", "u", "8" >>)
                  \/ endsWith(probe.err.url, << ".", "m", "3", "u" >>)
            /\ probe.verdict => fetch = "consume"
            /\ ~probe.verdict =>
                  /\ fetch = "none" /\ performs = 0 /\ problems = 0 /\ ~pending
                  /\ latest = Promise("rejected", NoSnap, MimeErr)
                  /\ ~isRecoverableUpdateError(MimeErr))
    /\ [][ (probe'.variant = "meta" /\ ~probe'.verdict) =>
             /\ fetch = "perform"
             /\ index' = index /\ playlist' = playlist
             /\ updatedOf' = updatedOf /\ rejected' = rejected ]_vars

\* an update() was rejected for a response of type text/plain whose url ends
\* in .M3U8
C21_Witness ==
    /\ probe = MetaProbe(Meta("text/plain", << "a", ".", "M", "3", "U", "8" >>))
    /\ updates = 1 /\ latest = Promise("rejected", NoSnap, MimeErr)
    /\ index.kind = "media" /\ ~aborted

\* ================================================================== C22
\* C22: once an index is stored its kind never changes, the stored playlist
\* is that of a media index only, and a response or a snapshot that an
\* update() holds or has resolved with is never a master playlist.
C22_KindStable ==
    /\ [][ index.kind # "none" => index'.kind = index.kind ]_vars
    /\ [](/\ (playlist # NoPlaylist) <=> (index.kind = "media")
          /\ res # NoSnap => res.index.kind = "media"
          /\ (latest.st = "resolved" /\ updates > 0) =>
                (latest.snap.index.kind = "media" /\ index.kind = "media"))

\* an update() received a master playlist and was rejected for it, the
\* stored index is the media playlist it was
C22_Witness ==
    /\ latest = Promise("rejected", NoSnap, CastErr) /\ updates = 1
    /\ index.kind = "media" /\ isLive(index) /\ ~aborted /\ updatedOf = "rejected"

\* ================================================================== C23
\* C23: a ParsedPlaylist built with noLowLatency = true has no partTarget
\* and no preload hints, its segments are those of the index without a
\* trailing partial segment, and none has parts; the playlist that a fetcher
\* with lowLatency = false builds for a snapshot is built that way and has no
\* preload hint of type part.
C23_Stripped ==
    LET raw == probe.err.index
        out == probe.verdict
        n   == Len(raw.segments)
        cut == IF n > 0 /\ ~raw.segments[n].uri /\ raw.segments[n].parts > 0
               THEN n - 1 ELSE n
    IN  /\ (probe.variant \in {"constructor", "fetcher"} /\ probe.err.noLowLatency) =>
              /\ partTarget(out) = -1 /\ preloadHints(out) = {}
              /\ Len(out.index.segments) = cut
              /\ \A i \in 1 .. cut :
                    /\ out.index.segments[i].parts = -1
                    /\ out.index.segments[i].uri = raw.segments[i].uri
        /\ probe.variant = "fetcher" =>
              probe.err.noLowLatency /\ "part" \notin preloadHints(out)

\* a playlist with a part target, a part hint and a trailing partial segment
\* after a segment with parts was built for a fetcher with lowLatency = false
C23_Witness ==
    /\ probe.variant = "fetcher"
    /\ probe.err.index =
          MediaPlaylist(<< Segment(TRUE, 1), Segment(FALSE, 1) >>, 1,
                        << Hint("part", TRUE) >>, TRUE, FALSE)
    /\ probe.verdict.index.segments = << Segment(TRUE, -1) >>
    /\ preloadHints(NewParsedPlaylist(probe.err.index, FALSE)) = {"part"}

\* ================================================================== C24
\* the step is a call of close(), of next()
isClose == fsw'.ret.op = "close"
isNext == fsw'.ret.op = "next"

\* the step is the underlying watch reporting an error
isWatchError == fsw.error = "none" /\ fsw'.error = "fail"

\* C24: the watcher latches its terminal condition.  A close() of a watcher
\* that has no error rejects every promise a next() has returned and that
\* is pending with 'closed'; an error of the watch rejects every such
\* promise with that error; an error that is set is never replaced, a
\* close() included; once it is set every next() throws it synchronously
\* and creates no promise; a close() of a watcher that has an error changes
\* nothing.
C24_Latch ==
    [][ /\ (isClose /\ fsw.error = "none") =>
              /\ fsw'.error = "closed"
              /\ \A id \in PendingOf(fsw) : fsw'.settled[id] = << "closed" >>
        /\ isWatchError =>
              \A id \in PendingOf(fsw) : fsw'.settled[id] = << "fail" >>
        /\ fsw.error # "none" => fsw'.error = fsw.error
        /\ (isNext /\ fsw.error # "none") =>
              /\ fsw'.ret = [op |-> "next", value |-> "throws", err |-> fsw.error]
              /\ fsw'.settled = fsw.settled
        /\ (isClose /\ fsw.error # "none") =>
              [fsw' EXCEPT !.ret = NoCall] = Fsw ]_vars

\* the part of C24 that is about the promise the watcher holds: close() and
\* an error of the watch reject the promise of the last next(), and the
\* error is latched as above
C24_LatchLast ==
    [][ /\ (isClose /\ fsw.error = "none") =>
              /\ fsw'.error = "closed"
              /\ fsw.deferred # 0 => fsw'.settled[fsw.deferred] = << "closed" >>
        /\ isWatchError =>
              (fsw.deferred # 0 => fsw'.settled[fsw.deferred] = << "fail" >>)
        /\ fsw.error # "none" => fsw'.error = fsw.error
        /\ (isNext /\ fsw.error # "none") =>
              /\ fsw'.ret = [op |-> "next", value |-> "throws", err |-> fsw.error]
              /\ fsw'.settled = fsw.settled
        /\ (isClose /\ fsw.error # "none") =>
              [fsw' EXCEPT !.ret = NoCall] = Fsw ]_vars


\* two promises were pending when close() was called: the later one is
\* rejected with 'closed', the earlier one is left pending
C24_Witness ==
    /\ fsw.ret.op = "close" /\ fsw.error = "closed"
    /\ fsw.settled = << << >>, << "closed" >> >>

\* ================================================================== C25
\* C25: on a watcher that is neither closed nor failed, a next() called
\* while no promise is pending and after events for the watched file that
\* no next() has returned yet returns the last of them synchronously, creates
\* no promise and consumes the event; a next() called while no promise is
\* pending and with no such event returns a promise.  Events for other
\* files are no such events.
C25_Coalesced ==
    [][ (isNext /\ fsw.error = "none" /\ PendingOf(fsw) = {}) =>
            IF fsw.unreported # "none"
            THEN /\ fsw'.ret = [op |-> "next", value |-> fsw.unreported]
                 /\ fsw'.settled = fsw.settled
                 /\ fsw'.unreported = "none"
            ELSE /\ fsw'.ret = [op |-> "next", value |-> "promise",
                                id |-> Len(fsw.settled) + 1]
                 /\ PendingOf(fsw') = { Len(fsw.settled) + 1 } ]_vars

\* the first next() has returned an event, the second one waits
C25_Witness ==
    /\ fsw.calls = 2 /\ fsw.error = "none"
    /\ fsw.ret = [op |-> "next", value |-> "promise", id |-> 1]
    /\ fsw.settled = << << >> >>

\* ================================================================== C26
\* the promises that the step settles, and what promise id is settled with
settledNow == { id \in PendingOf(fsw) : fsw'.settled[id] # << >> }
valueOf(id) == fsw'.settled[id][1]

\* C26: a promise returned by next(timeout) settles exactly once.  No
\* Deferred is resolved or rejected twice and no callback throws; while the
\* watcher is neither closed nor failed, a pending promise of next(timeout)
\* has its timer armed, or an event for the watched file has occurred since
\* its call and the resolution deferred to setImmediate is queued.  A promise
\* that is resolved with an event is resolved with the first event for the
\* watched file that occurred while it was pending; a promise that is
\* resolved with 'timeout' was created with a timeout, no such event
\* occurred, and it is its own timer that expires.  So neither the timer nor
\* the deferred resolution of a promise settles the promise of another
\* next().
C26_SettlesOnce ==
    /\ [](/\ ~fsw.uncaught
          /\ \A id \in DOMAIN fsw.settled : Len(fsw.settled[id]) <= 1
          /\ fsw.error = "none" =>
                \A id \in PendingOf(fsw) :
                    fsw.timed[id] =>
                        \/ id \in fsw.timers /\ fsw.seen[id] = "none"
                        \/ fsw.seen[id] # "none" /\ fsw.immediates # << >>)
    /\ [][ \A id \in settledNow :
              /\ valueOf(id) \in EventTypes => valueOf(id) = fsw.seen[id]
              /\ valueOf(id) = "timeout" =>
                    /\ fsw.timed[id] /\ fsw.seen[id] = "none"
                    /\ id \in fsw.timers /\ id \notin fsw'.timers ]_vars

\* the same for callers that wait for the promise of one next() to settle
\* before they call next() again
oneAtATime == ~fsw.overlapped
C26_SettlesOnceInTurn ==
    /\ [](oneAtATime =>
            /\ ~fsw.uncaught
            /\ \A id \in DOMAIN fsw.settled : Len(fsw.settled[id]) <= 1
            /\ fsw.error = "none" =>
                  \A id \in PendingOf(fsw) :
                      fsw.timed[id] =>
                          \/ id \in fsw.timers /\ fsw.seen[id] = "none"
                          \/ fsw.seen[id] # "none" /\ fsw.immediates # << >>)
    /\ [][ oneAtATime' =>
            \A id \in settledNow :
              /\ valueOf(id) \in EventTypes => valueOf(id) = fsw.seen[id]
              /\ valueOf(id) = "timeout" =>
                    /\ fsw.timed[id] /\ fsw.seen[id] = "none"
                    /\ id \in fsw.timers /\ id \notin fsw'.timers ]_vars


\* next(timeout) and then next() were called: the timer of the first
\* promise has resolved the second one, which has no timeout, with
\* 'timeout', and the first promise is left pending with nothing armed
C26_Witness ==
    /\ fsw.timed = << TRUE, FALSE >> /\ fsw.error = "none"
    /\ fsw.settled = << << >>, << "timeout" >> >>
    /\ fsw.timers = {} /\ fsw.immediates = << >> /\ fsw.deferred = 0

\* ================================================================== C27
\* the step issues a request of an update() call
issuesUpdate == pending' /\ performs' = performs + 1

\* the step is an update() call that is accepted: its first iteration begins
\* with the playlist that is held
callsUpdate == ~pending /\ pending'

\* C27: a request of an update() call has a blocking key exactly when it is
\* issued by the first iteration of the call, from a playlist that advertises
\* CAN-BLOCK-RELOAD; it is then issued within the call, with no wait, and its
\* url has _HLS_msn and _HLS_part as nextHead() of the playlist held when
\* update() was called gives them.  Every request issued later in the call,
\* after a wait of the first iteration or in a retry after an error or an
\* unchanged head, and every request from a playlist that does not advertise
\* it, has no blocking key, no _HLS_ parameter and fresh = true.
C27_BlockingReload ==
    [][ /\ issuesUpdate =>
              /\ req'.blocking <=> (callsUpdate /\ canBlockReload(playlist))
              /\ req'.blocking =>
                    req' = Req(TRUE, FALSE, MsnPart("nextHead", playlist))
              /\ ~req'.blocking => req' = Req(FALSE, TRUE, NoMsnPart)
        /\ (callsUpdate /\ canBlockReload(playlist)) =>
              pc' \notin {"wait", "watch"} ]_vars

\* the first request of an update() from a low-latency playlist that
\* advertises CAN-BLOCK-RELOAD is in flight
C27_Witness ==
    /\ pending /\ fetch = "perform" /\ wasUpdated /\ ~wasError
    /\ canBlockReload(start) /\ start.index.parts = 1
    /\ req = Req(TRUE, FALSE, MsnPart("nextHead", start))

\* ================================================================== C28
\* the response of a blocking request of the pending update() is stored
storesBlocking == pending /\ req.blocking /\ pc' = "stored"

\* _next resumes with the response of its first iteration, which has the
\* head of the playlist held when update() was called
resumesSameHead ==
    /\ pc = "stored" /\ pc' # "stored"
    /\ wasUpdated /\ canBlockReload(start)
    /\ isSameHead(start, res.index)

\* the step rejects the update() with the inconsistency error, reports no
\* problem and starts no retry
rejectsInconsistent ==
    /\ ~pending' /\ updates' = updates + 1 /\ pc' = "idle"
    /\ latest' = Promise("rejected", NoSnap, Inconsistency)
    /\ problems' = 0 /\ performs' = performs /\ fetch' = fetch

\* C28 as stated: a blocking request is the request of a first iteration
\* from a playlist that advertises CAN-BLOCK-RELOAD, and when _next resumes
\* with its response, this has the head of the playlist held at the call and
\* the stored playlist is live, update() rejects with the 'stream
\* inconsistency' error, without onProblem and without a retry.
C28_Inconsistency ==
    [][ /\ storesBlocking => (wasUpdated' /\ canBlockReload(start'))
        /\ (resumesSameHead /\ isLive(index)) => rejectsInconsistent ]_vars

\* C28, amended: the same when the stored playlist is live and the fetcher
\* has not been cancelled, that is when canUpdate() holds.
C28_InconsistencyLive ==
    [][ /\ storesBlocking => (wasUpdated' /\ canBlockReload(start'))
        /\ (resumesSameHead /\ canUpdate(F)) => rejectsInconsistent ]_vars

\* the update() was rejected with the inconsistency error
C28_Witness ==
    /\ latest = Promise("rejected", NoSnap, Inconsistency)
    /\ updates = 1 /\ ~pending /\ problems = 0 /\ fetch = "none"
    /\ ~aborted /\ isLive(index) /\ index.parts = 1

\* ================================================================== C29
\* a request of the pending update() ends with an error, which the step
\* hands to onProblem or rejects the update() with
requestFails ==
    /\ pending /\ fetch # "none" /\ fetch' = "none"
    /\ problems' > 0 \/ (~pending' /\ latest'.st = "rejected")
failure == IF problems' > 0 THEN lastProblem' ELSE latest'.err

\* a status isRecoverableUpdateError accepts
recoverableStatus(status) ==
    (status >= 500 /\ status <= 599) \/ status \in recoverableCodes

\* C29 as stated: the error of a failing update request has isBlocking =
\* true exactly when the request had a blocking key and the error carries a
\* recoverable HTTP status; so an error of a request without blocking key
\* and an error with a hard-failure status are not tagged.
C29_Tagged ==
    [][ requestFails =>
            (failure.isBlocking <=>
                (req.blocking /\ recoverableStatus(failure.status))) ]_vars

\* C29, amended: the error of a failing update request has isBlocking = true
\* exactly when the request had a blocking key and the error carries an HTTP
\* status, whatever the status; with the tag the error is recoverable, so it
\* is handed to onProblem and the update() retries.  The error of a request
\* without blocking key is recoverable exactly when it is without the tag.
C29_TaggedAnyStatus ==
    [][ requestFails =>
            /\ failure.isBlocking <=> (req.blocking /\ failure.status # 0)
            /\ failure.isBlocking =>
                  /\ problems' = 1
                  /\ pending' => pc' = "retry"
                  /\ ~pending' => latest'.err = ProblemErr
            /\ ~req.blocking =>
                  (problems' = 1 <=>
                      isRecoverableUpdateError([failure EXCEPT !.isBlocking = FALSE])) ]_vars

\* a blocking request has failed with status 400: the error is tagged,
\* was handed to onProblem, and the update() waits to retry
C29_Witness ==
    /\ pending /\ pc = "retry" /\ problems = 1
    /\ lastProblem = [Err("Fetch failed", 400) EXCEPT !.isBlocking = TRUE]

\* ================================================================== C30
\* what the claim calls base, and its condition for halving, for the
\* computation the probe holds
intervalBase ==
    IF partTarget(probe.err.playlist) > 0 /\ ~probe.err.playlist.index.i_frames_only
    THEN partTarget(probe.err.playlist)
    ELSE probe.err.playlist.index.target_duration
intervalHalved ==
    \/ ~probe.err.wasUpdated \/ probe.err.wasError
    \/ Len(probe.err.playlist.index.segments) = 0

headOf == probe.err.playlist.index
headLast == headOf.segments[Len(headOf.segments)]

\* what the claim gives for a playlist with segments
headWithSegments ==
    IF partTarget(probe.err.playlist) > 0 /\ ~headOf.i_frames_only
    THEN IF headLast.uri THEN MsnHead(lastMsnOfSegments(headOf, TRUE) + 1, 0)
         ELSE MsnHead(lastMsnOfSegments(headOf, TRUE),
                   IF headLast.parts = -1 THEN 0 ELSE headLast.parts)
    ELSE MsnHead(lastMsnOfSegments(headOf, FALSE) + 1, NoPart)

\* C31 as stated: nextHead() returns for every media playlist:
\* { msn: media_sequence } for a playlist with no segments; otherwise, with
\* a part target and not I-frames-only, { msn: lastMsn(true) + 1, part: 0 }
\* when the last segment has a uri and { msn: lastMsn(true), part: number of
\* its parts } when it has none; otherwise { msn: lastMsn(false) + 1 }.
C31_NextHead ==
    probe.variant = "nextHead" =>
        probe.verdict = IF Len(headOf.segments) = 0
                        THEN MsnHead(headOf.media_sequence, NoPart)
                        ELSE headWithSegments

\* C31 for the playlists where nextHead() returns: those with a segment,
\* and those without segments that have no part target above 0 or are
\* I-frames-only.  The values are as the claim gives them.
C31_NextHeadReturns ==
    (/\ probe.variant = "nextHead"
     /\ \/ Len(headOf.segments) > 0
        \/ ~(partTarget(probe.err.playlist) > 0 /\ ~headOf.i_frames_only)) =>
        C31_NextHead

\* nextHead() on a playlist with a part target and no segments, not
\* I-frames-only, throws a TypeError
C31_Witness ==
    /\ probe.variant = "nextHead"
    /\ Len(headOf.segments) = 0 /\ partTarget(probe.err.playlist) = 1
    /\ ~headOf.i_frames_only /\ ~probe.err.noLowLatency
    /\ probe.verdict.throws = "TypeError"

\* nextHead() on a playlist whose last segment is partial with one part
\* gives that segment and part 1
C31_WitnessPartial ==
    /\ probe.variant = "nextHead"
    /\ headOf.media_sequence = 20 /\ Len(headOf.segments) = 2
    /\ probe.verdict = MsnHead(21, 1)

\* ================================================================== C32
\* the hint list of the playlist that preloadHints was read from, and the
\* entries of a kind that the claim counts: of that type, carrying a uri
hintList == probe.err.playlist.index.hints
hintsOfKind(kind) ==
    { j \in 1 .. Len(hintList) :
        typeLower(hintList[j].type) = kind /\ hintList[j].name # "" }

\* what the claim gives for a kind: nothing without such an entry, else the
\* uri of the last one, with a byterange exactly when it has a start
hintExpected(kind) ==
    IF hintsOfKind(kind) = {} THEN NoHint
    ELSE LET last == hintList[CHOOSE j \in hintsOfKind(kind) :
                                  \A k \in hintsOfKind(kind) : k <= j]
         IN  PartData(last.name,
                      IF last.start # -1
                      THEN [offset |-> last.start, length |-> last.length]
                      ELSE NoByterange)

\* C32 as stated: preloadHints has an entry for part, and for map, exactly
\* when the hint list has an entry of that type with a uri; it is made of
\* the last such entry, with byterange { offset, length? } exactly when
\* byterange-start is given; other entries contribute nothing.
C32_PreloadHints ==
    probe.variant = "preloadHints" =>
        \A kind \in {"part", "map"} : probe.verdict[kind] = hintExpected(kind)

\* C32 for part hints, and for map hints of a list in which every MAP entry
\* has a uri
C32_PreloadHintsWithUri ==
    probe.variant = "preloadHints" =>
        /\ probe.verdict["part"] = hintExpected("part")
        /\ (\A j \in 1 .. Len(hintList) :
               typeLower(hintList[j].type) = "map" => hintList[j].name # "") =>
              probe.verdict["map"] = hintExpected("map")

\* a MAP hint with a uri followed by a MAP hint without one: the entry for
\* map is there and has no uri
C32_Witness ==
    /\ probe.variant = "preloadHints" /\ Len(hintList) = 2
    /\ hintList[1].type = "MAP" /\ hintList[1].name = "a:"
    /\ hintList[2].type = "MAP" /\ hintList[2].name = ""
    /\ probe.verdict["map"] # NoHint /\ probe.verdict["map"].uri = ""

\* two PART hints with a uri: the entry is made of the second, which has a
\* start and no length
C32_WitnessLast ==
    /\ probe.variant = "preloadHints" /\ Len(hintList) = 2
    /\ hintList[1] = HintAttrs("PART", "a:", 0, 5)
    /\ hintList[2] = HintAttrs("PART", "b:", 0, -1)
    /\ probe.verdict["part"] = PartData("b:", [offset |-> 0, length |-> -1])

\* ================================================================== C33
\* an index() or update() call has settled and has left canUpdate() false
settledFinal ==
    latest.st \in {"resolved", "rejected"} /\ ~pending /\ ~canUpdate(F)

\* a step in which the fetcher starts a wait or issues a request
schedules ==
    \/ performs' > performs
    \/ pc' \in {"wait", "watch", "retry"} /\ pc' # pc

\* C33 as stated: whenever the fetcher has been cancelled, or an index() or
\* update() call has settled leaving canUpdate() false, no watcher that the
\* fetcher created is open, none was dropped while its watch was open, and
\* the fetcher starts no further wait or fetch.
C33_Released ==
    /\ [](aborted \/ settledFinal => watcher # "open" /\ ~leaked)
    /\ [][aborted \/ settledFinal => ~schedules]_vars

\* C33 for update() and for cancel() on a fetcher whose index() was called
\* before: once an update() has settled leaving canUpdate() false, or such a
\* fetcher is cancelled, its watcher is closed and no watcher was dropped
\* open; after update() has settled that way nothing more is started.
C33_ReleasedAfterUpdate ==
    /\ [](latest.st # "none" => ~leaked)
    /\ []((\/ aborted /\ latest.st # "none"
           \/ updates > 0 /\ settledFinal) => watcher # "open")
    /\ [][updates > 0 /\ settledFinal => ~schedules]_vars

\* index() was called on a cancelled fetcher of a file: it has thrown and
\* has left an open watcher
C33_Witness ==
    /\ aborted /\ cfg.proto = "file:" /\ ret.op = "index"
    /\ watcher = "open" /\ latest.st = "none"

\* a second such call has dropped the open watcher of the first
C33_WitnessDropped == aborted /\ leaked /\ watcher = "open"

\* index() has resolved with an index that is not live and the watcher is
\* open
C33_WitnessIndex ==
    /\ ~aborted /\ latest.st = "resolved" /\ updates = 0 /\ ~canUpdate(F)
    /\ watcher = "open"

\* a file: fetcher whose update() has settled with an ended playlist
C33_WitnessUpdate ==
    /\ cfg.proto = "file:" /\ ~aborted /\ updates > 0 /\ settledFinal
    /\ latest.st = "resolved" /\ watcher = "none"

\* ================================================================== C34
\* a pending update() of a cancelled fetcher is left to a timer: it is in
\* a wait that nothing but the expiry of its timer ends
waitsForTimer ==
    \/ pc = "retry"
    \/ pc \in {"wait", "watch"} /\ ~fetcherQueued

\* C34 as stated: once cancel() has been called, a pending update() is in
\* none of its waits (the update delay, the watcher wait, the 100 ms retry
\* back-off) without its rejection being queued: no timer has to expire
\* for it to reject.
C34_Interrupts == (aborted /\ pending) => ~waitsForTimer

\* C34 for the update delay and the watcher wait: cancel() queues their
\* rejection, and the step that follows rejects the update() with the
\* reason of the cancel, unless the reason is one that is retried.
C34_InterruptsDelay ==
    /\ []((aborted /\ pending /\ pc \in {"wait", "watch"}) => fetcherQueued)
    /\ [][(/\ aborted /\ pending /\ pc \in {"wait", "watch"} /\ pc' # pc
           /\ ~isRecoverableUpdateError(reason)) =>
             /\ ~pending' /\ latest'.st = "rejected" /\ latest'.err = reason
             /\ pc' = "idle"]_vars

\* cancel() was called without a reason while the update() was in its
\* retry back-off: the update() is pending until the 100 ms have passed
C34_Witness ==
    /\ aborted /\ reason = AbortErr /\ pending /\ pc = "retry"
    /\ ~MicrotaskQueued

\* cancel() was called during the watcher wait of a file: fetcher
C34_WitnessWatch ==
    /\ aborted /\ reason = AbortErr /\ pending /\ pc = "watch"
    /\ watcher = "none"

\* ================================================================== C35
\* the fetcher waits for its update delay on the promise of next()
watching == pc = "watch" /\ watcher = "open" /\ fsw.deferred # 0

\* a change or rename of the playlist file has occurred during this wait
changedInWait == watching /\ fsw.seen[fsw.deferred] # "none"

\* C35: for the fetcher of a file:, a change or rename of the playlist file
\* during the delay wait cancels the timer of the wait and queues its end
\* for the same turn of the event loop, the wait ends with that event, and
\* the end of a wait starts the fetch; a change or rename that occurs while
\* no wait is pending is kept by the watcher, and the next delay wait
\* returns at once, with no promise and no timer, and its continuation
\* queued.
C35_NotLost ==
    /\ [](changedInWait => fsw.immediates # << >> /\ fsw.timers = {})
    /\ [][(changedInWait /\ fsw'.deferred = 0 /\ watcher' = "open") =>
             fsw'.settled[fsw.deferred] = << fsw.seen[fsw.deferred] >>]_vars
    /\ [][(pc = "watch" /\ watcher = "open" /\ pc' # "watch" /\ ~aborted') =>
             pc' = "fetch" /\ performs' = performs + 1]_vars
    /\ []((watcher = "open" /\ fsw.unreported # "none") =>
             fsw.last = fsw.unreported)
    /\ [][(pc # "watch" /\ pc' = "watch" /\ fsw.unreported # "none") =>
             /\ fsw'.ret = [op |-> "next", value |-> fsw.unreported]
             /\ fsw'.deferred = 0 /\ fsw'.timers = {} /\ FileQueued']_vars

\* the playlist file has changed while the fetcher waited for its delay:
\* the end of the wait is queued
C35_Witness ==
    /\ changedInWait /\ fsw.timed[fsw.deferred]
    /\ fsw.immediates # << >> /\ accepted > 0

\* the file was renamed during a fetch, and the delay wait of the next
\* update() has returned the event at once
C35_WitnessRetained ==
    /\ pc = "watch" /\ watcher = "open" /\ accepted = 2
    /\ fsw.ret = [op |-> "next", value |-> "rename"]
    /\ fsw.deferred = 0 /\ FileQueued

\* ================================================================== C36
\* the entry of a blocking id is in the pool; its count; an agent of it has
\* sockets
inPool(id) == internals.agents[id].present
countOf(id) == internals.agents[id].count
hasSockets(id) ==
    \E name \in AgentNames : internals.agents[id][name] > 0

\* C36 as stated: every time the count of a blocking id drops to zero a
\* cleanup run is scheduled, also after an earlier run; an entry is removed
\* only when its count is zero and its agents have no socket; and an entry
\* whose count is zero is eventually removed, or used again.
C36_Cleanup ==
    /\ [][\A id \in BlockingIds :
            (countOf(id) > 0 /\ internals'.agents[id].count = 0) =>
                internals'.unblockerTimer = "armed"]_vars
    /\ [][\A id \in BlockingIds :
            (inPool(id) /\ ~internals'.agents[id].present) =>
                countOf(id) = 0 /\ ~hasSockets(id)]_vars
    /\ \A id \in BlockingIds :
          (inPool(id) /\ countOf(id) = 0) ~> (~inPool(id) \/ countOf(id) > 0)

\* C36 as far as it holds: the first drop to zero schedules a cleanup run,
\* and an entry is removed by a run only, and only while its count is zero.
C36_CleanupFirst ==
    /\ [][\A id \in BlockingIds :
            (/\ countOf(id) > 0 /\ internals'.agents[id].count = 0
             /\ internals.unblockerTimer = "unset") =>
                internals'.unblockerTimer = "armed"]_vars
    /\ [][\A id \in BlockingIds :
            (inPool(id) /\ ~internals'.agents[id].present) =>
                countOf(id) = 0 /\ internals.unblockerTimer = "armed"]_vars
    /\ [](\A id \in BlockingIds : countOf(id) > 0 => inPool(id))

\* a cleanup has run and has left its timer in the field; the count of an
\* entry has dropped to zero since, its sockets are closed, and no run is
\* scheduled
C36_Witness ==
    /\ internals.unblockerTimer = "fired"
    /\ \E id \in BlockingIds : inPool(id) /\ countOf(id) = 0 /\ ~hasSockets(id)


\* ================================================================== C37
\* currentPlayoutDelay: +this.updated - +this.playlist.endDate.  The model
\* keeps which response each operand describes: both the stored snapshot, or
\* `updated` a response that was not stored.
currentPlayoutDelay ==
    IF playlist = NoPlaylist \/ updatedOf = "none" THEN "undefined"
    ELSE IF updatedOf = "index" THEN "snapshot"
    ELSE "mixed"

\* C37 as stated: a step that rejects a response as coming from the past
\* leaves index, playlist and what updated, modified and baseUrl describe
\* unchanged, and currentPlayoutDelay is never computed from the updated
\* time of one response and the endDate of another.
C37_Unchanged ==
    /\ [][ rejected' = rejected + 1 =>
             /\ index' = index /\ playlist' = playlist
             /\ updatedOf' = updatedOf ]_vars
    /\ [](rejected > 0 => currentPlayoutDelay # "mixed")

\* C37 as far as it holds: the stored index and playlist are unchanged by
\* the rejection; updated, modified and baseUrl are those of the rejected
\* response afterwards.
C37_IndexUnchanged ==
    [][ rejected' = rejected + 1 =>
          /\ index' = index /\ playlist' = playlist
          /\ updatedOf' = "rejected" ]_vars

\* an update() has rejected a response from the past and waits to retry:
\* the index is the one stored before, and updated is the time of the
\* rejected response
C37_Witness ==
    /\ rejected = 1 /\ pending /\ lastProblem.name = RejectedErr.name
    /\ index.kind = "media" /\ playlist # NoPlaylist
    /\ currentPlayoutDelay = "mixed"


\* ================================================================== C38
\* the stream has signalled its normal end to the consumer, or will once the
\* consumer has taken what is queued
endSignalled ==
    \/ reader.state = "closed"
    \/ reader.state = "readable" /\ reader.closeRequested

\* the newest snapshot the stream took over: its id is the last the consumer
\* received or, if the queue is not empty, the last in the queue
lastHandedOver ==
    IF reader.queue # << >> THEN reader.queue[Len(reader.queue)].id
    ELSE IF delivered # << >> THEN delivered[Len(delivered)]
    ELSE -1

\* C38 as stated: the stream signals its normal end only after a snapshot
\* whose index is a master playlist or a media playlist that is not live,
\* also when the fetcher is cancelled, by the stall timer or directly, while
\* an update() is pending or settles.
C38_CleanEnd ==
    [](endSignalled =>
          /\ latest.st = "resolved" /\ lastHandedOver = latest.snap.id
          /\ ~isLive(latest.snap.index))

\* C38 as far as it holds: the stream signals its normal end only after the
\* newest snapshot, and after a live one only in a step that found the
\* fetcher cancelled and the promise of the snapshot resolved: a cancel()
\* between the settlement and the callback of the reader, which the stall
\* timer, disarmed by the settlement, cannot be.  A cancel() while
\* the request of update() is outstanding rejects the update().
C38_CleanEndUnlessCancelled ==
    /\ [](endSignalled =>
            /\ latest.st = "resolved" /\ lastHandedOver = latest.snap.id
            /\ isLive(latest.snap.index) => (cancelCalled /\ reason # StalledErr))
    /\ [][ (~endSignalled /\ endSignalled' /\ isLive(latest'.snap.index)) =>
             (aborted /\ latest = latest') ]_vars
    /\ [][ (pending /\ aborted /\ fetch # "none" /\ ~pending') =>
             latest'.st = "rejected" ]_vars

\* cancel() was called on the fetcher after update() had resolved with a
\* live snapshot and before the reader's callback ran: the consumer has
\* received the snapshot, and the stream has ended without an error
C38_Witness ==
    /\ reader.state = "closed" /\ reader.storedError = NoErr
    /\ latest.st = "resolved" /\ isLive(latest.snap.index)
    /\ delivered # << >> /\ delivered[Len(delivered)] = latest.snap.id
    /\ updates > 0 /\ aborted /\ reason = AbortErr


\* ================================================================== C39
\* the reader was destroyed, or cancelled by its consumer
destroyed == reader.state \in {"cancelled", "errored"}

\* C39 as stated: on a destroyed reader the settlement of index() or
\* update() delivers and queues nothing and leaves the stream as it is, and
\* no callback of the reader throws.
C39_NoEffect ==
    /\ [][ destroyed =>
             /\ delivered' = delivered /\ reader'.queue = reader.queue
             /\ reader'.state = reader.state
             /\ reader'.storedError = reader.storedError ]_vars
    /\ [](reader.unhandled = NoErr)

\* C39 as far as it holds: nothing is delivered or queued and the stream
\* stays as it is; the callback throws the TypeError only when the promise
\* has resolved, and does not when it was rejected.
C39_NothingDelivered ==
    /\ [][ destroyed =>
             /\ delivered' = delivered /\ reader'.queue = reader.queue
             /\ reader'.state = reader.state
             /\ reader'.storedError = reader.storedError ]_vars
    /\ [][ reader'.unhandled # reader.unhandled =>
             /\ destroyed /\ latest.st = "resolved" /\ reader.rpc # "none"
             /\ reader'.unhandled = TypeErr ]_vars

\* the reader was destroyed with an error while its update() was about to
\* resolve; the callback of _read() has run on the resolved promise and has
\* thrown
C39_Witness ==
    /\ reader.unhandled = TypeErr /\ reader.state = "errored"
    /\ reader.rpc = "none" /\ reader.hasIndex /\ updates > 0
    /\ latest.st = "resolved" /\ delivered # << >>
    /\ ~(latest.snap.id \in { delivered[i] : i \in DOMAIN delivered })


\* ================================================================== C40
\* the promise of the initial index() was rejected: no update() was ever
\* accepted, so #latest is that promise
indexRejected == accepted = 0 /\ latest.st = "rejected"

\* C40: once the initial index() has rejected, no index is stored; index()
\* returns the rejected promise and starts nothing; canUpdate() is false;
\* update() throws 'An initial index() must have been sucessfully fetched';
\* and no step changes any of this: the promise, the missing index and the
\* absence of a request stay, and whatever call throws is that update().
C40_Failed ==
    /\ [](indexRejected =>
            /\ index.kind = "none" /\ playlist = NoPlaylist
            /\ fetch = "none" /\ performs = 0 /\ ~pending
            /\ index_(F) = F
            /\ ~canUpdate(F)
            /\ \A finite, positive, throws \in BOOLEAN :
                  update(F, finite, positive, throws)
                      = [F EXCEPT !.ret = Ret("update", NoInitialIndex)])
    /\ [][ indexRejected =>
             /\ indexRejected' /\ latest' = latest
             /\ ret'.thrown # NoErr => ret' = Ret("update", NoInitialIndex) ]_vars

\* the initial index() was rejected for a text the parser does not accept,
\* and an update() called afterwards has thrown
C40_Witness ==
    /\ indexRejected /\ latest.err = ParserErr /\ ~aborted
    /\ ret = Ret("update", NoInitialIndex)

\* the same after a cancel(): the request of index() was aborted
C40_WitnessAborted ==
    /\ indexRejected /\ aborted /\ latest.err = reason
    /\ ret = Ret("update", NoInitialIndex)


\* index() on a fetcher that was cancelled before its first index(): the
\* call throws the reason of the cancel and stores no promise, so each later
\* call does the same; it issues no request, and canUpdate() and update()
\* are as after a rejection.
C40_ThrowsWhenCancelled ==
    [](aborted /\ latest.st = "none" =>
          /\ index_(F).ret = Ret("index", reason)
          /\ index_(F).latest = latest /\ index_(F).fetch = "none"
          /\ index_(F).performs = performs
          /\ ~canUpdate(F) /\ updateThrows(F) = NoInitialIndex)

====
